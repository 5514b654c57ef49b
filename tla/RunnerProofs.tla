----------------------------- MODULE RunnerProofs -----------------------------
(***************************************************************************)
(* Theorems about Runner for any number of threads and stages, any limits   *)
(* and any settings.                                                       *)
(***************************************************************************)
EXTENDS Runner, TLAPS

-----------------------------------------------------------------------------
(* The inductive invariant *)

Before == {"offered", "accepted", "refusing", "compiling"}
After  == {"compiled", "updated", "executing", "reporting", "cleaning"}

Taking == [at : Before, stage : Stage]
Having == [at : After, stage : Stage, mode : Transports]

ThreadType == thread \in [Thread -> {Off, Polling} \cup Taking \cup Having]

\* The stage is t's: the server has accepted it for t.
Takes(t, s) ==
    thread[t].at \in (Before \cup After) \ {"offered"} /\ thread[t].stage = s

\* Compile opens what Exec closes, so t is the one to close it.
Owns(t, s) == thread[t].at \in After /\ thread[t].stage = s

Fresh(s) == phase[s] = "new" /\ s \notin listening \cup created
Unclaimed(s) == server[s] \in {"pending", "other"}

Starting == main \in {"ping", "start", "remote"}

\* Nothing is taken on before the threads start.
StartInv ==
    Starting => (\A t \in Thread : thread[t] = Off) /\ (\A s \in Stage : Unclaimed(s))

\* The optimistic lock of Accept: a stage is one thread's, once, and untouched
\* until that thread compiles it.
ClaimInv ==
    /\ \A s \in Stage : Unclaimed(s) => Fresh(s)
    /\ \A t \in Thread, s \in Stage : Takes(t, s) =>
          /\ ~Unclaimed(s)
          /\ thread[t].at \in Before => Fresh(s)
          /\ thread[t].at \in {"compiled", "updated"} => s \notin created
          /\ \A u \in Thread : Takes(u, s) => u = t

\* What is open has an owner who will close it, or its Update failed.
OwnerInv ==
    \A s \in Stage :
        s \in listening \cup created \/ phase[s] = "open" =>
            \/ \E t \in Thread : Owns(t, s)
            \/ missed[s] = "update" /\ s \notin created

\* A stage was told the URL only if there is one, and then the server of the
\* outputs was started with the command; only a signal closes it.
OutputsInv ==
    /\ \A t \in Thread :
          thread[t].at \in After /\ thread[t].mode = "http" => ConfiguredOutputHTTPURL
    /\ main \in {"remote", "wait", "process"} /\ config.bind => outputs # "off"
    /\ outputs = "closed" => signal

IInv ==
    /\ TypeOK /\ ThreadType /\ StartInv /\ ClaimInv /\ OwnerInv /\ OutputsInv
    /\ ExitsDrained /\ RefusedOnlyAtTheEdges
-----------------------------------------------------------------------------
(* Types *)

LEMMA ThreadForms ==
  ASSUME ThreadType, NEW t \in Thread
  PROVE  /\ Free(t) <=> thread[t].at \in {"off", "polling"}
         /\ thread[t].at \in Before => thread[t] \in Taking
         /\ thread[t].at \in After => thread[t] \in Having
         /\ thread[t].at \in {"off", "polling"} \cup Before \cup After
  BY DEF ThreadType, Taking, Having, Free, Off, Polling, Before, After

\* What TypeOK says of the threads.
LEMMA ThreadTypeSuffices ==
  ASSUME ThreadType, NEW t \in Thread, ~Free(t)
  PROVE  /\ thread[t].stage \in Stage
         /\ thread[t].at \in Before \cup After
         /\ thread[t].at \in After => thread[t].mode \in {"file", "unix", "http"}
<1>1. thread[t].at \in Before \cup After
  BY ThreadForms
<1>2. thread[t] \in Taking \cup Having
  BY <1>1, ThreadForms
<1> QED
  BY <1>1, <1>2, ThreadForms DEF Taking, Having, Transports, Before, After

LEMMA MainType ==
  ASSUME TypeOK, ThreadType, MainNext \/ OutputsNext \/ Signal \/ Kill
  PROVE  ThreadType'
<1>1. CASE Start
  BY <1>1 DEF ThreadType, Start, Taking, Before
<1>2. CASE PingRemote
  BY <1>2 DEF ThreadType, PingRemote
<1> QED
  BY <1>1, <1>2
     DEF ThreadType, MainNext, OutputsNext, PingDocker, Wait, EndProcess, Signal, Kill,
         ServeOutputs, ShutdownOutputs

\* Where a step of t leaves t: elsewhere nothing changes.
LEMMA ThreadStep ==
  ASSUME ThreadType, NEW t \in Thread,
         StopPolling(t) \/ Request(t) \/ RunNext(t) \/ Publish(t)
  PROVE  /\ thread'[t] \in {Off, Polling} \cup Taking \cup Having
         /\ thread' = [thread EXCEPT ![t] = thread'[t]]
<1>1. CASE StopPolling(t)
  BY <1>1 DEF ThreadType, StopPolling
<1>2. CASE Request(t)
  BY <1>2 DEF ThreadType, Request, Go, Taking, Before
<1>3. CASE Accept(t)
  <2>1. thread[t] \in Taking
    BY <1>3, ThreadForms DEF Accept, Before
  <2> QED
    BY <1>3, <2>1 DEF ThreadType, Accept, Go, Poll, Taking, Before
<1>4. CASE Detail(t)
  <2>1. thread[t] \in Taking
    BY <1>4, ThreadForms DEF Detail, Before
  <2> QED
    BY <1>4, <2>1 DEF ThreadType, Detail, Go, Taking, Before
<1>5. CASE GiveUp(t) \/ Refuse(t) \/ CleanUp(t)
  BY <1>5 DEF ThreadType, GiveUp, Refuse, CleanUp, Poll
<1>6. CASE Compile(t)
  <2>1. thread[t] \in Taking
    BY <1>6, ThreadForms DEF Compile, Before
  <2> QED
    BY <1>6, <2>1 DEF ThreadType, Compile, Taking, Having, After
<1>7. CASE Update(t) \/ Setup(t) \/ StepsEnd(t) \/ ReportStage(t)
  <2>1. thread[t] \in Having
    BY <1>7, ThreadForms DEF Update, Setup, StepsEnd, ReportStage, After
  <2>2. \E at \in After : thread' = [thread EXCEPT ![t].at = at]
    BY <1>7 DEF Update, Setup, StepsEnd, ReportStage, After
  <2> QED
    BY <2>1, <2>2 DEF ThreadType, Having
<1>8. CASE Publish(t)
  BY <1>8 DEF ThreadType, Publish
<1> QED
  BY <1>1, <1>2, <1>3, <1>4, <1>5, <1>6, <1>7, <1>8 DEF RunNext

LEMMA NextThreadType ==
  ASSUME TypeOK, ThreadType, [Next]_vars
  PROVE  ThreadType'
<1>1. ASSUME NEW t \in Thread, StopPolling(t) \/ Request(t) \/ RunNext(t) \/ Publish(t)
      PROVE  ThreadType'
  BY <1>1, ThreadStep DEF ThreadType
<1>2. ASSUME UNCHANGED thread PROVE ThreadType'
  BY <1>2 DEF ThreadType
<1>3. CASE UNCHANGED vars
  BY <1>2, <1>3 DEF vars
<1>4. ASSUME NEW s \in Stage, TakenElsewhere(s) PROVE ThreadType'
  BY <1>2, <1>4 DEF TakenElsewhere
<1> QED
  BY <1>1, <1>3, <1>4, MainType DEF Next

\* The variables other than thread.
PlainType ==
    /\ config \in Configs
    /\ main \in {"ping", "start", "remote", "wait", "process", "exited", "killed"}
    /\ signal \in BOOLEAN
    /\ outputs \in {"off", "starting", "serving", "failed", "closed"}
    /\ server \in [Stage -> {"pending", "other", "accepted", "running", "finished"}]
    /\ missed \in [Stage -> {"none", "accept", "detail", "update", "report"}]
    /\ phase \in [Stage -> {"new", "open", "closed"}]
    /\ listening \cup created \subseteq Stage

LEMMA TypeSplits == ThreadType => (TypeOK <=> PlainType)
<1> SUFFICES ASSUME ThreadType PROVE TypeOK <=> PlainType
  OBVIOUS
<1>1. \A t \in Thread : ~Free(t) =>
          /\ thread[t].stage \in Stage
          /\ thread[t].at \in {"offered", "accepted", "refusing", "compiling",
                               "compiled", "updated", "executing", "reporting",
                               "cleaning"}
          /\ thread[t].at \in {"compiled", "updated", "executing", "reporting",
                               "cleaning"} => thread[t].mode \in {"file", "unix", "http"}
  BY ThreadTypeSuffices DEF Before, After
<1> QED
  BY <1>1 DEF TypeOK, PlainType

\* Which call to the server a stage is given up on.
LEMMA GiveUpEffect ==
  ASSUME NEW t \in Thread, GiveUp(t)
  PROVE  /\ thread[t].at \in {"accepted", "compiled", "refusing"}
         /\ \E call \in {"detail", "update", "report"} :
              /\ missed' = [missed EXCEPT ![thread[t].stage] = call]
              /\ thread[t].at = "compiled" => call = "update"
<1>1. thread[t].at \in {"accepted", "compiled", "refusing"}
  BY DEF GiveUp, Miss
<1> DEFINE calls == [accepted |-> "detail", compiled |-> "update", refusing |-> "report"]
<1>2. missed' = [missed EXCEPT ![thread[t].stage] = calls[thread[t].at]]
  BY DEF GiveUp, Miss
<1>3. CASE thread[t].at = "compiled"
  <2>1. calls[thread[t].at] = "update"
    BY <1>3
  <2> QED
    BY <1>2, <1>3, <2>1
<1>4. CASE thread[t].at \in {"accepted", "refusing"}
  <2>1. calls[thread[t].at] \in {"detail", "report"}
    BY <1>4
  <2>2. thread[t].at # "compiled"
    BY <1>4
  <2> HIDE DEF calls
  <2> QED
    BY <1>1, <1>2, <2>1, <2>2
<1> QED
  BY <1>1, <1>3, <1>4

LEMMA RunPlainType ==
  ASSUME PlainType, ThreadType, NEW t \in Thread, RunNext(t)
  PROVE  PlainType'
<1>1. thread[t].at \in Before \cup After => thread[t].stage \in Stage
  BY ThreadForms DEF Taking, Having
<1>2. CASE Accept(t)
  BY <1>1, <1>2 DEF PlainType, Accept, Before, resources
<1>3. CASE Detail(t)
  BY <1>3 DEF PlainType, Detail, resources
<1>4. CASE GiveUp(t)
  BY <1>1, <1>4, GiveUpEffect DEF PlainType, GiveUp, Before, After, resources
<1>5. CASE Refuse(t)
  BY <1>1, <1>5 DEF PlainType, Refuse, Before, resources
<1>6. CASE Compile(t)
  BY <1>1, <1>6 DEF PlainType, Compile, Before, resources
<1>7. CASE Update(t)
  BY <1>1, <1>7 DEF PlainType, Update, After, resources
<1>8. CASE Setup(t)
  BY <1>1, <1>8 DEF PlainType, Setup, After, resources
<1>9. CASE StepsEnd(t)
  BY <1>9 DEF PlainType, StepsEnd, resources
<1>10. CASE ReportStage(t)
  BY <1>1, <1>10 DEF PlainType, ReportStage, Miss, After, resources
<1>11. CASE CleanUp(t)
  BY <1>1, <1>11 DEF PlainType, CleanUp, After
<1> QED
  BY <1>2, <1>3, <1>4, <1>5, <1>6, <1>7, <1>8, <1>9, <1>10, <1>11 DEF RunNext

LEMMA NextPlainType ==
  ASSUME PlainType, ThreadType, [Next]_vars
  PROVE  PlainType'
<1>1. CASE MainNext \/ OutputsNext \/ Signal \/ Kill
  BY <1>1 DEF PlainType, MainNext, PingDocker, Start, PingRemote, Wait, EndProcess,
              OutputsNext, ServeOutputs, ShutdownOutputs, Signal, Kill, resources
<1>2. ASSUME NEW t \in Thread, StopPolling(t) \/ Request(t) \/ Publish(t)
      PROVE  PlainType'
  BY <1>2 DEF PlainType, StopPolling, Request, Publish, resources
<1>3. ASSUME NEW s \in Stage, TakenElsewhere(s)
      PROVE  PlainType'
  BY <1>3 DEF PlainType, TakenElsewhere, resources
<1>4. CASE UNCHANGED vars
  BY <1>4 DEF PlainType, vars, resources
<1> QED
  BY <1>1, <1>2, <1>3, <1>4, RunPlainType DEF Next

LEMMA NextType ==
  ASSUME TypeOK, ThreadType, [Next]_vars
  PROVE  TypeOK' /\ ThreadType'
<1>1. ThreadType'
  BY NextThreadType
<1>2. PlainType'
  BY TypeSplits, NextPlainType
<1>3. ThreadType' => (TypeOK' <=> PlainType')
  BY TypeSplits, PTL
<1> QED
  BY <1>1, <1>2, <1>3

-----------------------------------------------------------------------------
(* Stages and their threads *)

\* The thread itself goes on, the others stay where they are.
LEMMA Others ==
  ASSUME ThreadType, NEW t \in Thread,
         StopPolling(t) \/ Request(t) \/ RunNext(t) \/ Publish(t)
  PROVE  \A u \in Thread \ {t} : thread'[u] = thread[u]
<1>1. thread' = [thread EXCEPT ![t] = thread'[t]]
  BY ThreadStep
<1> QED
  BY <1>1 DEF ThreadType

\* No thread takes anything, and no stage is offered or touched.
LEMMA MainClaims ==
  ASSUME TypeOK, ThreadType, StartInv, ClaimInv, OwnerInv,
         MainNext \/ OutputsNext \/ Signal \/ Kill
  PROVE  ClaimInv' /\ OwnerInv'
<1>1. CASE UNCHANGED <<thread, server, missed, resources>>
  BY <1>1 DEF ClaimInv, OwnerInv, Unclaimed, Fresh, Takes, Owns, resources
<1>2. CASE Start
  <2>1. \A t \in Thread : thread[t] = Off
    BY <1>2 DEF Start, StartInv, Starting
  <2>2. \A s \in Stage : Unclaimed(s) /\ Fresh(s)
    BY <1>2 DEF Start, StartInv, ClaimInv, Starting
  <2>3. UNCHANGED <<missed, resources>>
    BY <1>2 DEF Start
  <2>4. OwnerInv'
    BY <2>2, <2>3 DEF OwnerInv, Fresh, resources
  <2>5. CASE UNCHANGED <<thread, server>>
    BY <1>1, <2>3, <2>5
  <2>6. ASSUME NEW t \in Thread, NEW s \in Stage,
               thread' = [thread EXCEPT ![t] = [at |-> "accepted", stage |-> s]],
               server' = [server EXCEPT ![s] = "accepted"]
        PROVE  ClaimInv'
    <3>1. \A u \in Thread : thread'[u] = IF u = t THEN [at |-> "accepted", stage |-> s]
                                                  ELSE Off
      BY <2>1, <2>6 DEF ThreadType
    <3>2. \A u \in Thread, x \in Stage : Takes(u, x)' => u = t /\ x = s
      BY <3>1 DEF Takes, Off, Before, After
    <3>3. \A x \in Stage : Fresh(x)'
      BY <2>2, <2>3 DEF Fresh, resources
    <3>4. ~Unclaimed(s)'
      BY <2>6 DEF TypeOK, Unclaimed
    <3>5. thread'[t].at = "accepted"
      BY <3>1
    <3> QED
      BY <3>2, <3>3, <3>4, <3>5 DEF ClaimInv
  <2> QED
    BY <1>2, <2>4, <2>5, <2>6, <1>1, <2>3 DEF Start
<1>3. CASE PingRemote
  <2>1. \A t \in Thread : thread[t] = Off /\ thread'[t] \in {Off, Polling}
    BY <1>3 DEF PingRemote, StartInv, Starting
  <2>2. \A t \in Thread, s \in Stage :
            ~Takes(t, s) /\ ~Takes(t, s)' /\ ~Owns(t, s) /\ ~Owns(t, s)'
    BY <2>1 DEF Takes, Owns, Off, Polling, Before, After
  <2> QED
    BY <1>3, <2>2 DEF PingRemote, ClaimInv, OwnerInv, Unclaimed, Fresh, resources
<1> QED
  BY <1>1, <1>2, <1>3
     DEF MainNext, OutputsNext, PingDocker, Wait, EndProcess, Signal, Kill,
         ServeOutputs, ShutdownOutputs

\* A thread that takes no stage before or after the step: nothing changes for
\* the stages.
LEMMA IdleClaims ==
  ASSUME ThreadType, ClaimInv, OwnerInv, NEW t \in Thread,
         StopPolling(t) \/ Request(t) \/ Publish(t)
  PROVE  ClaimInv' /\ OwnerInv'
<1>1. \A u \in Thread, s \in Stage :
          /\ Takes(u, s)' <=> Takes(u, s)
          /\ Owns(u, s)' <=> Owns(u, s)
          /\ Takes(u, s) => thread'[u] = thread[u]
  <2>1. CASE Publish(t)
    BY <2>1 DEF Publish, Takes, Owns
  <2>2. CASE StopPolling(t) \/ Request(t)
    <3>1. thread[t].at = "polling" /\ thread'[t].at \in {"off", "offered"}
      BY <2>2 DEF ThreadType, StopPolling, Request, Go, Polling, Off
    <3> QED
      BY <3>1, Others DEF Takes, Owns, Before, After
  <2> QED
    BY <2>1, <2>2
<1>2. UNCHANGED <<server, missed, resources>>
  BY DEF StopPolling, Request, Publish
<1> QED
  BY <1>1, <1>2 DEF ClaimInv, OwnerInv, Unclaimed, Fresh, resources

\* Accept claims a stage that nobody has touched.
LEMMA AcceptClaims ==
  ASSUME TypeOK, ThreadType, ClaimInv, OwnerInv, NEW t \in Thread, Accept(t)
  PROVE  ClaimInv' /\ OwnerInv'
<1> DEFINE s == thread[t].stage
<1>1. thread[t].at = "offered" /\ s \in Stage
  BY ThreadForms DEF Accept, Taking, Before
<1>2. \A u \in Thread \ {t} : thread'[u] = thread[u]
  BY Others DEF RunNext
<1>3. UNCHANGED resources
  BY DEF Accept
<1>4. \A x \in Stage : ~Takes(t, x) /\ ~Owns(t, x)
  BY <1>1 DEF Takes, Owns, After
<1>5. CASE server[s] = "pending" /\ server' = [server EXCEPT ![s] = "accepted"]
  <2>1. Fresh(s) /\ \A u \in Thread : ~Takes(u, s)
    BY <1>1, <1>5 DEF ClaimInv, Unclaimed
  <2>2. \A x \in Stage : Unclaimed(x)' <=> Unclaimed(x) /\ x # s
    BY <1>5 DEF TypeOK, Unclaimed
  <2>3. \A x \in Stage : Fresh(x)' <=> Fresh(x)
    BY <1>3 DEF Fresh, resources
  <2>4. CASE Go(t, s, "accepted") /\ UNCHANGED missed
    <3>1. thread'[t] = [at |-> "accepted", stage |-> s]
      BY <2>4 DEF Go, ThreadType
    <3>2. \A x \in Stage : ~Owns(t, x)' /\ (Takes(t, x)' <=> x = s)
      BY <3>1 DEF Takes, Owns, Before, After
    <3>3. \A u \in Thread \ {t}, x \in Stage :
              (Takes(u, x)' <=> Takes(u, x)) /\ (Owns(u, x)' <=> Owns(u, x))
      BY <1>2 DEF Takes, Owns
    <3>4. ClaimInv'
      BY <1>2, <1>3, <1>4, <2>1, <2>2, <2>3, <3>1, <3>2, <3>3 DEF ClaimInv, resources
    <3> QED
      BY <1>3, <1>4, <2>4, <3>3, <3>4 DEF OwnerInv, resources
  <2>5. CASE Poll(t) /\ missed' = [missed EXCEPT ![s] = "accept"]
    <3>1. thread'[t] \in {Off, Polling}
      BY <2>5 DEF Poll, ThreadType
    <3>2. \A x \in Stage : ~Owns(t, x)' /\ ~Takes(t, x)'
      BY <3>1 DEF Takes, Owns, Off, Polling, Before, After
    <3>3. \A u \in Thread \ {t}, x \in Stage :
              (Takes(u, x)' <=> Takes(u, x)) /\ (Owns(u, x)' <=> Owns(u, x))
      BY <1>2 DEF Takes, Owns
    <3>4. ClaimInv'
      BY <1>2, <1>3, <1>4, <2>1, <2>2, <2>3, <3>2, <3>3 DEF ClaimInv, resources
    <3>5. \A x \in Stage \ {s} : missed'[x] = missed[x]
      BY <2>5 DEF TypeOK
    <3> QED
      BY <1>3, <1>4, <2>1, <3>3, <3>4, <3>5 DEF OwnerInv, Fresh, resources
  <2> QED
    <3>1. server'[s] # server[s]
      BY <1>1, <1>5 DEF TypeOK
    <3> QED
      BY <2>4, <2>5, <3>1 DEF Accept
<1>6. CASE Poll(t) /\ UNCHANGED <<server, missed>>
  <2>1. thread'[t] \in {Off, Polling}
    BY <1>6 DEF Poll, ThreadType
  <2>2. \A x \in Stage : ~Owns(t, x)' /\ ~Takes(t, x)'
    BY <2>1 DEF Takes, Owns, Off, Polling, Before, After
  <2>3. \A u \in Thread \ {t}, x \in Stage :
            (Takes(u, x)' <=> Takes(u, x)) /\ (Owns(u, x)' <=> Owns(u, x))
    BY <1>2 DEF Takes, Owns
  <2>4. ClaimInv'
    BY <1>2, <1>3, <1>6, <2>2, <2>3 DEF ClaimInv, Unclaimed, Fresh, resources
  <2> QED
    BY <1>3, <1>4, <1>6, <2>3, <2>4 DEF OwnerInv, resources
<1> QED
  BY <1>5, <1>6 DEF Accept

\* What a step of the stage's own thread must leave so, whatever else it does.
LEMMA StageClaims ==
  ASSUME ThreadType, ClaimInv, OwnerInv,
         NEW t \in Thread, NEW s \in Stage, Takes(t, s),
         \A u \in Thread \ {t} : thread'[u] = thread[u],
         \/ thread'[t] \in {Off, Polling}
         \/ thread'[t].at \in (Before \cup After) \ {"offered"} /\ thread'[t].stage = s,
         \A x \in Stage \ {s} :
            /\ server'[x] = server[x] /\ missed'[x] = missed[x] /\ phase'[x] = phase[x]
            /\ x \in listening' <=> x \in listening
            /\ x \in created' <=> x \in created,
         ~Unclaimed(s)',
         thread'[t].at \in Before => Fresh(s)',
         thread'[t].at \in {"compiled", "updated"} => s \notin created',
         s \in listening' \cup created' \/ phase'[s] = "open" =>
            Owns(t, s)' \/ (missed'[s] = "update" /\ s \notin created')
  PROVE  ClaimInv' /\ OwnerInv'
<1>1. \A x \in Stage \ {s} :
          /\ Unclaimed(x)' <=> Unclaimed(x)
          /\ Fresh(x)' <=> Fresh(x)
          /\ ~Takes(t, x) /\ ~Takes(t, x)' /\ ~Owns(t, x) /\ ~Owns(t, x)'
  BY DEF Unclaimed, Fresh, Takes, Owns, Off, Polling, Before, After
<1>2. \A u \in Thread \ {t}, x \in Stage :
          (Takes(u, x)' <=> Takes(u, x)) /\ (Owns(u, x)' <=> Owns(u, x))
  BY DEF Takes, Owns
<1>3. \A u \in Thread \ {t} : ~Takes(u, s)
  BY DEF ClaimInv
<1>4. ClaimInv'
  <2>1. \A x \in Stage : Unclaimed(x)' => Fresh(x)'
    BY <1>1 DEF ClaimInv
  <2>2. ASSUME NEW u \in Thread, NEW x \in Stage, Takes(u, x)'
        PROVE  /\ ~Unclaimed(x)'
               /\ thread'[u].at \in Before => Fresh(x)'
               /\ thread'[u].at \in {"compiled", "updated"} => x \notin created'
               /\ \A w \in Thread : Takes(w, x)' => w = u
    <3>1. CASE u = t
      BY <1>1, <1>2, <1>3, <2>2, <3>1
    <3>2. CASE u # t
      <4>1. Takes(u, x) /\ x # s /\ thread'[u] = thread[u]
        BY <1>2, <1>3, <2>2, <3>2
      <4> QED
        BY <1>1, <1>2, <3>2, <4>1 DEF ClaimInv
    <3> QED
      BY <3>1, <3>2
  <2> QED
    BY <2>1, <2>2 DEF ClaimInv
<1>5. OwnerInv'
  BY <1>1, <1>2 DEF OwnerInv
<1> QED
  BY <1>4, <1>5

\* The rest of the life of a stage, step by step.
LEMMA RunClaims ==
  ASSUME TypeOK, ThreadType, ClaimInv, OwnerInv, NEW t \in Thread, RunNext(t)
  PROVE  ClaimInv' /\ OwnerInv'
<1> DEFINE s == thread[t].stage
<1>1. CASE Accept(t)
  BY <1>1, AcceptClaims
<1>2. CASE ~Accept(t)
  <2>1. thread[t].at \in (Before \cup After) \ {"offered"} /\ s \in Stage
    <3>1. thread[t].at \in (Before \cup After) \ {"offered"}
      BY <1>2, GiveUpEffect
         DEF RunNext, Detail, Refuse, Compile, Update, Setup, StepsEnd, ReportStage,
             CleanUp, Before, After
    <3> QED
      BY <3>1, ThreadForms DEF Taking, Having
  <2>2. Takes(t, s)
    BY <2>1 DEF Takes
  <2>3. /\ \A u \in Thread \ {t} : thread'[u] = thread[u]
        /\ ~Unclaimed(s)
        /\ \A u \in Thread : Takes(u, s) => u = t
        /\ thread[t].at \in Before => Fresh(s)
        /\ thread[t].at \in {"compiled", "updated"} => s \notin created
    BY <2>1, <2>2, Others DEF ClaimInv
  <2>4. s \in listening \cup created \/ phase[s] = "open" =>
            Owns(t, s) \/ (missed[s] = "update" /\ s \notin created)
    <3>1. \A u \in Thread : Owns(u, s) => Takes(u, s)
      BY DEF Owns, Takes, Before, After
    <3> QED
      BY <2>1, <2>3, <3>1 DEF OwnerInv
  <2>5. Poll(t) => thread'[t] \in {Off, Polling} /\ thread'[t].at \in {"off", "polling"}
    BY DEF Poll, ThreadType, Off, Polling
  <2>6. CASE Detail(t)
    <3>1. thread[t].at = "accepted" /\ UNCHANGED <<server, missed, resources>>
      BY <2>6 DEF Detail
    <3>2. thread'[t].at \in {"refusing", "compiling"} /\ thread'[t].stage = s
      BY <2>6 DEF Detail, Go, ThreadType
    <3> QED
      BY <2>1, <2>2, <2>3, <3>1, <3>2, StageClaims
         DEF Fresh, Unclaimed, Before, After, resources
  <2>7. CASE GiveUp(t)
    <3>1. UNCHANGED <<server, resources>> /\ Poll(t)
      BY <2>7 DEF GiveUp
    <3>2. /\ thread[t].at \in {"accepted", "compiled", "refusing"}
          /\ \A x \in Stage \ {s} : missed'[x] = missed[x]
          /\ thread[t].at = "compiled" => missed'[s] = "update"
      BY <2>1, <2>7, GiveUpEffect DEF TypeOK
    <3>3. s \in listening' \cup created' \/ phase'[s] = "open" =>
              missed'[s] = "update" /\ s \notin created'
      BY <2>3, <3>1, <3>2 DEF Fresh, Before, resources
    <3> QED
      BY <2>1, <2>2, <2>3, <2>5, <3>1, <3>2, <3>3, StageClaims
         DEF Unclaimed, Before, resources
  <2>8. CASE Refuse(t)
    <3>1. UNCHANGED <<missed, resources>> /\ Poll(t) /\ thread[t].at = "refusing"
      BY <2>8 DEF Refuse
    <3>2. server'[s] = "finished" /\ \A x \in Stage \ {s} : server'[x] = server[x]
      BY <2>1, <2>8 DEF Refuse, TypeOK
    <3> QED
      BY <2>1, <2>2, <2>3, <2>5, <3>1, <3>2, StageClaims
         DEF Fresh, Unclaimed, Before, resources
  <2>9. CASE Compile(t)
    <3>1. /\ UNCHANGED <<server, missed, created>> /\ thread[t].at = "compiling"
          /\ thread'[t].at = "compiled" /\ thread'[t].stage = s
      BY <2>9 DEF Compile, ThreadType
    <3>2. \A x \in Stage \ {s} :
              phase'[x] = phase[x] /\ (x \in listening' <=> x \in listening)
      BY <2>1, <2>9 DEF Compile, TypeOK
    <3>3. s \notin created'
      BY <2>3, <3>1 DEF Fresh, Before
    <3> QED
      BY <2>1, <2>2, <2>3, <3>1, <3>2, <3>3, StageClaims
         DEF Unclaimed, Owns, Before, After
  <2>10. CASE Update(t)
    <3>1. /\ UNCHANGED <<missed, resources>>
          /\ thread[t].at = "compiled"
          /\ thread'[t].at = "updated" /\ thread'[t].stage = s
      <4>1. thread[t] \in Having
        BY <2>10, ThreadForms DEF Update, After
      <4> QED
        BY <2>10, <4>1 DEF Update, ThreadType, Having
    <3>2. server'[s] = "running" /\ \A x \in Stage \ {s} : server'[x] = server[x]
      BY <2>1, <2>10 DEF Update, TypeOK
    <3> QED
      BY <2>1, <2>2, <2>3, <2>4, <3>1, <3>2, StageClaims
         DEF Unclaimed, Owns, Before, After, resources
  <2>11. CASE Setup(t)
    <3>1. /\ UNCHANGED <<server, missed, phase, listening>>
          /\ thread[t].at = "updated"
          /\ thread'[t].at \in {"executing", "reporting"} /\ thread'[t].stage = s
          /\ created' = created \cup {s}
      <4>1. thread[t] \in Having
        BY <2>11, ThreadForms DEF Setup, After
      <4> QED
        BY <2>11, <4>1 DEF Setup, ThreadType, Having
    <3> QED
      BY <2>1, <2>2, <2>3, <3>1, StageClaims DEF Unclaimed, Owns, Before, After
  <2>12. CASE StepsEnd(t)
    <3>1. /\ UNCHANGED <<server, missed, resources>>
          /\ thread[t].at = "executing"
          /\ thread'[t].at = "reporting" /\ thread'[t].stage = s
      <4>1. thread[t] \in Having
        BY <2>12, ThreadForms DEF StepsEnd, After
      <4> QED
        BY <2>12, <4>1 DEF StepsEnd, ThreadType, Having
    <3> QED
      BY <2>1, <2>2, <2>3, <3>1, StageClaims
         DEF Unclaimed, Owns, Before, After, resources
  <2>13. CASE ReportStage(t)
    <3>1. /\ UNCHANGED resources
          /\ thread[t].at = "reporting"
          /\ thread'[t].at = "cleaning" /\ thread'[t].stage = s
      <4>1. thread[t] \in Having
        BY <2>13, ThreadForms DEF ReportStage, After
      <4> QED
        BY <2>13, <4>1 DEF ReportStage, ThreadType, Having
    <3>2. /\ server'[s] \in {server[s], "finished"}
          /\ \A x \in Stage \ {s} : server'[x] = server[x] /\ missed'[x] = missed[x]
      BY <2>1, <2>13 DEF ReportStage, Miss, TypeOK
    <3> QED
      BY <2>1, <2>2, <2>3, <3>1, <3>2, StageClaims
         DEF Unclaimed, Owns, Before, After, resources
  <2>14. CASE CleanUp(t)
    <3>1. /\ UNCHANGED <<server, missed>> /\ Poll(t)
          /\ s \notin listening' \cup created'
      BY <2>14 DEF CleanUp
    <3>2. /\ phase'[s] # "open"
          /\ \A x \in Stage \ {s} :
                /\ phase'[x] = phase[x]
                /\ x \in listening' <=> x \in listening
                /\ x \in created' <=> x \in created
      BY <2>1, <2>14 DEF CleanUp, TypeOK
    <3> QED
      BY <2>1, <2>2, <2>3, <2>5, <3>1, <3>2, StageClaims DEF Unclaimed, Before
  <2> QED
    BY <1>2, <2>6, <2>7, <2>8, <2>9, <2>10, <2>11, <2>12, <2>13, <2>14 DEF RunNext
<1> QED
  BY <1>1, <1>2

LEMMA NextClaims ==
  ASSUME TypeOK, ThreadType, StartInv, ClaimInv, OwnerInv, [Next]_vars
  PROVE  ClaimInv' /\ OwnerInv'
<1>1. ASSUME NEW s \in Stage, TakenElsewhere(s)
      PROVE  ClaimInv' /\ OwnerInv'
  <2>1. UNCHANGED <<thread, missed, resources>>
    BY <1>1 DEF TakenElsewhere
  <2>2. \A x \in Stage : Unclaimed(x)' <=> Unclaimed(x)
    BY <1>1 DEF TakenElsewhere, TypeOK, Unclaimed
  <2> QED
    BY <2>1, <2>2 DEF ClaimInv, OwnerInv, Fresh, Takes, Owns, resources
<1>2. CASE UNCHANGED vars
  BY <1>2 DEF vars, ClaimInv, OwnerInv, Unclaimed, Fresh, Takes, Owns, resources
<1> QED
  BY <1>1, <1>2, MainClaims, IdleClaims, RunClaims DEF Next

-----------------------------------------------------------------------------
(* The main goroutine and the outputs' server *)

LEMMA NextStart ==
  ASSUME TypeOK, ThreadType, StartInv, [Next]_vars
  PROVE  StartInv'
<1>1. ASSUME NEW t \in Thread, StopPolling(t) \/ Request(t) \/ RunNext(t) \/ Publish(t)
      PROVE  StartInv'
  <2>1. main' = main
    BY <1>1 DEF StopPolling, Request, Publish, RunNext, Accept, Detail, GiveUp, Refuse,
                Compile, Update, Setup, StepsEnd, ReportStage, CleanUp
  <2>2. thread[t].at # "off"
    BY <1>1, GiveUpEffect
       DEF StopPolling, Request, Publish, RunNext, Accept, Detail, Refuse, Compile,
           Update, Setup, StepsEnd, ReportStage, CleanUp, Polling
  <2> QED
    BY <2>1, <2>2 DEF StartInv, Starting, Off
<1>2. ASSUME NEW s \in Stage, TakenElsewhere(s) PROVE StartInv'
  <2>1. UNCHANGED <<main, thread>> /\ \A x \in Stage : Unclaimed(x) => Unclaimed(x)'
    BY <1>2 DEF TakenElsewhere, TypeOK, Unclaimed
  <2> QED
    BY <2>1 DEF StartInv, Starting
<1>3. CASE MainNext \/ OutputsNext \/ Signal \/ Kill
  BY <1>3 DEF StartInv, Starting, Unclaimed, MainNext, PingDocker, Start, PingRemote,
              Wait, EndProcess, OutputsNext, ServeOutputs, ShutdownOutputs, Signal, Kill
<1>4. CASE UNCHANGED vars
  BY <1>4 DEF vars, StartInv, Starting, Unclaimed
<1> QED
  BY <1>1, <1>2, <1>3, <1>4 DEF Next

LEMMA NextOutputs ==
  ASSUME TypeOK, ThreadType, OutputsInv, [Next]_vars
  PROVE  OutputsInv'
<1>1. ConfiguredOutputHTTPURL' <=> ConfiguredOutputHTTPURL
  BY DEF Next, MainNext, PingDocker, Start, PingRemote, Wait, EndProcess, OutputsNext,
         ServeOutputs, ShutdownOutputs, Signal, Kill, StopPolling, Request, Publish,
         RunNext, Accept, Detail, GiveUp, Refuse, Compile, Update, Setup, StepsEnd,
         ReportStage, CleanUp, TakenElsewhere, vars, ConfiguredOutputHTTPURL
<1>2. ASSUME NEW t \in Thread, StopPolling(t) \/ Request(t) \/ RunNext(t) \/ Publish(t)
      PROVE  OutputsInv'
  <2>1. UNCHANGED <<config, main, signal, outputs>>
    BY <1>2 DEF StopPolling, Request, Publish, RunNext, Accept, Detail, GiveUp, Refuse,
                Compile, Update, Setup, StepsEnd, ReportStage, CleanUp
  <2>2. thread'[t].at \in After /\ thread'[t].mode = "http" => ConfiguredOutputHTTPURL
    <3>1. CASE StopPolling(t) \/ Request(t) \/ Accept(t) \/ Detail(t) \/ GiveUp(t)
                \/ Refuse(t) \/ CleanUp(t)
      <4>1. thread'[t].at \in {"off", "polling"} \cup Before
        BY <3>1 DEF StopPolling, Request, Accept, Detail, GiveUp, Refuse, CleanUp, Go,
                    Poll, Off, Polling, Before, ThreadType
      <4> QED
        BY <4>1 DEF Before, After
    <3>2. CASE Compile(t)
      BY <3>2 DEF Compile, ThreadType
    <3>3. CASE Update(t) \/ Setup(t) \/ StepsEnd(t) \/ ReportStage(t)
      <4>1. thread[t].at \in After /\ thread[t] \in Having
        BY <3>3, ThreadForms DEF Update, Setup, StepsEnd, ReportStage, After
      <4>2. thread'[t].mode = thread[t].mode
        BY <3>3, <4>1 DEF Update, Setup, StepsEnd, ReportStage, Having, ThreadType
      <4> QED
        BY <4>1, <4>2 DEF OutputsInv
    <3>4. CASE Publish(t)
      BY <3>4 DEF Publish, OutputsInv
    <3> QED
      BY <1>2, <3>1, <3>2, <3>3, <3>4 DEF RunNext
  <2> QED
    BY <1>1, <1>2, <2>1, <2>2, Others DEF OutputsInv
<1>3. CASE Start
  <2>1. config' = config /\ main' \in {"exited", "remote", "process"}
        /\ (main' # "exited" /\ config.bind => outputs' = "starting")
        /\ (outputs' = "closed" => signal')
    BY <1>3 DEF Start, OutputsInv
  <2>2. \A t \in Thread : thread'[t].at \in After => thread'[t] = thread[t]
    BY <1>3 DEF Start, ThreadType, After
  <2> QED
    BY <1>1, <2>1, <2>2 DEF OutputsInv
<1>4. CASE PingRemote
  <2>1. \A t \in Thread : thread'[t].at \in After => thread'[t] = thread[t]
    BY <1>4 DEF PingRemote, After, Polling
  <2> QED
    BY <1>1, <1>4, <2>1 DEF PingRemote, OutputsInv
<1>5. CASE PingDocker \/ Wait \/ EndProcess \/ OutputsNext \/ Signal \/ Kill
  BY <1>1, <1>5 DEF OutputsInv, PingDocker, Wait, EndProcess, OutputsNext, ServeOutputs,
                    ShutdownOutputs, Signal, Kill
<1>6. ASSUME NEW s \in Stage, TakenElsewhere(s) PROVE OutputsInv'
  BY <1>1, <1>6 DEF TakenElsewhere, OutputsInv
<1>7. CASE UNCHANGED vars
  BY <1>1, <1>7 DEF vars, OutputsInv
<1> QED
  BY <1>2, <1>3, <1>4, <1>5, <1>6, <1>7 DEF Next, MainNext

LEMMA NextExits ==
  ASSUME TypeOK, ThreadType, StartInv, ClaimInv, OwnerInv, ExitsDrained, [Next]_vars
  PROVE  ExitsDrained'
<1>1. CASE UNCHANGED vars
  BY <1>1 DEF vars, ExitsDrained, Free, resources
<1>2. CASE Next /\ main' = "exited"
  <2>1. main # "exited"
    BY <1>2 DEF Next, Alive
  <2>2. UNCHANGED <<thread, created>>
    BY <1>2, <2>1
       DEF Next, MainNext, PingDocker, Start, PingRemote, Wait, EndProcess, OutputsNext,
           ServeOutputs, ShutdownOutputs, Signal, Kill, StopPolling, Request, Publish,
           RunNext, Accept, Detail, GiveUp, Refuse, Compile, Update, Setup, StepsEnd,
           ReportStage, CleanUp, TakenElsewhere, resources
  <2>3. Starting \/ \A t \in Thread : Free(t)
    BY <1>2, <2>1
       DEF Next, MainNext, PingDocker, Start, PingRemote, Wait, EndProcess, OutputsNext,
           ServeOutputs, ShutdownOutputs, Signal, Kill, StopPolling, Request, Publish,
           RunNext, Accept, Detail, GiveUp, Refuse, Compile, Update, Setup, StepsEnd,
           ReportStage, CleanUp, TakenElsewhere, Starting, Free, Off
  <2>4. \A t \in Thread : Free(t)
    BY <2>3 DEF StartInv, Free
  <2>5. \A t \in Thread, s \in Stage : ~Owns(t, s)
    BY <2>4, ThreadForms DEF Owns, After
  <2>6. created = {}
    BY <2>5 DEF OwnerInv, TypeOK
  <2> QED
    BY <2>2, <2>4, <2>6 DEF ExitsDrained, Free
<1> QED
  BY <1>1, <1>2 DEF ExitsDrained

LEMMA NextRefused ==
  ASSUME TypeOK, ThreadType, StartInv, OutputsInv, RefusedOnlyAtTheEdges, [Next]_vars
  PROVE  RefusedOnlyAtTheEdges'
<1>1. signal => signal'
  BY DEF Next, MainNext, PingDocker, Start, PingRemote, Wait, EndProcess, OutputsNext,
         ServeOutputs, ShutdownOutputs, Signal, Kill, StopPolling, Request, Publish,
         RunNext, Accept, Detail, GiveUp, Refuse, Compile, Update, Setup, StepsEnd,
         ReportStage, CleanUp, TakenElsewhere, vars
<1>2. CASE refused' = refused
  BY <1>1, <1>2 DEF RefusedOnlyAtTheEdges
<1>3. ASSUME NEW t \in Thread, Alive, Publish(t)
      PROVE  RefusedOnlyAtTheEdges'
  <2>1. thread[t].at \in After /\ thread[t].mode = "http" /\ thread[t] # Off
    BY <1>3 DEF Publish, After, Off
  <2>2. config.bind
    BY <2>1 DEF OutputsInv, ConfiguredOutputHTTPURL
  <2>3. main \in {"wait", "process"}
    BY <1>3, <2>1 DEF StartInv, Starting, Alive, TypeOK
  <2>4. outputs \in {"starting", "failed"} \/ (outputs = "closed" /\ signal)
    <3>1. outputs # "off"
      BY <2>2, <2>3, Zenon DEF OutputsInv
    <3>2. outputs # "serving"
      BY <1>3 DEF Publish
    <3>3. outputs = "closed" => signal
      BY DEF OutputsInv
    <3>4. outputs \in {"off", "starting", "serving", "failed", "closed"}
      BY DEF TypeOK
    <3> QED
      BY <3>1, <3>2, <3>3, <3>4, Zenon
  <2>5. refused' = refused \cup {<<thread[t].stage, outputs>>} /\ signal' = signal
    BY <1>3 DEF Publish
  <2> QED
    BY <2>4, <2>5 DEF RefusedOnlyAtTheEdges
<1> QED
  BY <1>2, <1>3
     DEF Next, MainNext, PingDocker, Start, PingRemote, Wait, EndProcess, OutputsNext,
         ServeOutputs, ShutdownOutputs, Signal, Kill, StopPolling, Request, RunNext,
         Accept, Detail, GiveUp, Refuse, Compile, Update, Setup, StepsEnd, ReportStage,
         CleanUp, TakenElsewhere, vars

-----------------------------------------------------------------------------
LEMMA InitInductive == Init => IInv
<1> SUFFICES ASSUME Init PROVE IInv
  OBVIOUS
<1>1. main \in {"ping", "start"} /\ \A t \in Thread : thread[t] = Off
  BY DEF Init
<1>2. ThreadType /\ PlainType
  BY <1>1 DEF Init, ThreadType, PlainType
<1>3. StartInv /\ ClaimInv
  BY <1>1 DEF Init, StartInv, ClaimInv, Unclaimed, Fresh, Takes, Off, Before, After
<1>4. OwnerInv /\ OutputsInv
  BY <1>1 DEF Init, OwnerInv, OutputsInv, Off, After
<1>5. ExitsDrained /\ RefusedOnlyAtTheEdges
  BY <1>1 DEF Init, ExitsDrained, RefusedOnlyAtTheEdges
<1> QED
  BY <1>2, <1>3, <1>4, <1>5, TypeSplits DEF IInv

LEMMA NextInductive ==
  ASSUME IInv, [Next]_vars
  PROVE  IInv'
<1>1. TypeOK' /\ ThreadType'
  BY NextType DEF IInv
<1>2. StartInv' /\ ClaimInv' /\ OwnerInv' /\ OutputsInv'
  BY NextStart, NextClaims, NextOutputs DEF IInv
<1>3. ExitsDrained' /\ RefusedOnlyAtTheEdges'
  BY NextExits, NextRefused DEF IInv
<1> QED
  BY <1>1, <1>2, <1>3 DEF IInv

\* What the theorems below follow from: the optimistic lock of Accept gives a
\* stage one thread, what Compile opened has an owner, and the outputs' server
\* runs before any step is told its URL.
THEOREM Inductive == Spec => []IInv
<1>1. IInv /\ [Next]_vars => IInv'
  BY NextInductive
<1> QED
  BY <1>1, InitInductive, PTL DEF Spec

\* Every thread is at a step of Run with a stage and, once compiled, a
\* transport of the three there are.
THEOREM TypeCorrect == Spec => []TypeOK
<1>1. IInv => TypeOK
  BY DEF IInv
<1> QED
  BY <1>1, Inductive, PTL

\* A stage's pipeline, listener and environment are gone when its thread goes
\* on to the next stage, unless the Update between Compile and Exec failed.
THEOREM NothingOutlives == Spec => []NothingOutlivesItsStage
<1>1. IInv => NothingOutlivesItsStage
  <2> SUFFICES ASSUME IInv PROVE NothingOutlivesItsStage
    OBVIOUS
  <2>1. \A t \in Thread, s \in Stage : Owns(t, s) => Holds(t, s)
    BY ThreadForms DEF IInv, Owns, Holds, Off, Polling, After
  <2> QED
    BY <2>1 DEF IInv, OwnerInv, NothingOutlivesItsStage
<1> QED
  BY <1>1, Inductive, PTL

\* When the command exits of itself, whenever the signal came, no thread is in
\* a stage and no environment is left.
THEOREM Drained == Spec => []ExitsDrained
<1>1. IInv => ExitsDrained
  BY DEF IInv
<1> QED
  BY <1>1, Inductive, PTL

\* A step that was told the URL of the outputs' server is refused only before
\* the server is up, when it could not bind, or after a signal.
THEOREM RefusedAtTheEdges == Spec => []RefusedOnlyAtTheEdges
<1>1. IInv => RefusedOnlyAtTheEdges
  BY DEF IInv
<1> QED
  BY <1>1, Inductive, PTL

-----------------------------------------------------------------------------
(* How the stages use the output service *)

LEMMA StoreInit == Init => Store!Init
<1> SUFFICES ASSUME Init PROVE Store!Init
  OBVIOUS
<1>1. Store!Token = {}
  BY DEF Store!Token
<1>2. [t \in {} |-> {}] = [t \in Store!Token |-> Store!EmptyMap]
  BY <1>1
<1>3. [w \in {} |-> {}] = [w \in {} |-> Store!Idle]
  OBVIOUS
<1> QED
  BY <1>2, <1>3 DEF Init, Store!Init

LEMMA StoreStep ==
  ASSUME IInv, [Next]_vars
  PROVE  [Store!Next]_(Store!vars)
<1>1. CASE phase' = phase
  BY <1>1 DEF Store!vars
<1>2. ASSUME NEW t \in Thread, Compile(t)
      PROVE  phase' = phase \/ Store!Next
  <2> DEFINE s == thread[t].stage
  <2>1. thread[t].at = "compiling" /\ s \in Stage
    BY <1>2, ThreadForms DEF IInv, Compile, Taking, Before
  <2>2. phase[s] = "new"
    BY <2>1 DEF IInv, ClaimInv, Takes, Fresh, Before, After
  <2>3. phase' = phase \/ phase' = [phase EXCEPT ![s] = "open"]
    BY <1>2 DEF Compile
  <2>4. phase' = [phase EXCEPT ![s] = "open"] => Store!Open(s)
    BY <2>2 DEF Store!Open
  <2> QED
    BY <2>1, <2>3, <2>4 DEF Store!Next
<1>3. ASSUME NEW t \in Thread, CleanUp(t)
      PROVE  phase' = phase \/ Store!Next
  <2> DEFINE s == thread[t].stage
  <2>1. s \in Stage
    BY <1>3, ThreadForms DEF IInv, CleanUp, Having, After
  <2>2. CASE phase[s] = "open"
    <3>1. phase' = [phase EXCEPT ![s] = "closed"]
      BY <1>3, <2>2 DEF CleanUp
    <3>2. Store!Close(s)
      BY <2>2, <3>1 DEF Store!Close
    <3> QED
      BY <2>1, <3>2 DEF Store!Next
  <2>3. CASE phase[s] # "open"
    BY <1>3, <2>1, <2>3 DEF CleanUp, IInv, TypeOK
  <2> QED
    BY <2>2, <2>3
<1>4. phase' = phase \/ \E t \in Thread : Compile(t) \/ CleanUp(t)
  BY DEF Next, MainNext, PingDocker, Start, PingRemote, Wait, EndProcess, OutputsNext,
         ServeOutputs, ShutdownOutputs, Signal, Kill, StopPolling, Request, Publish,
         RunNext, Accept, Detail, GiveUp, Refuse, Update, Setup, StepsEnd, ReportStage,
         TakenElsewhere, vars, resources
<1> QED
  BY <1>1, <1>2, <1>3, <1>4

\* The stages use the output service as OutputStore takes for granted: a
\* pipeline is opened at most once, and closed at most once and only then.
THEOREM UsesTheStoreHolds == Spec => UsesTheStore
<1>1. IInv /\ [Next]_vars => [Store!Next]_(Store!vars)
  BY StoreStep
<1> QED
  BY <1>1, StoreInit, Inductive, PTL DEF Spec, UsesTheStore, Store!Spec

=============================================================================
