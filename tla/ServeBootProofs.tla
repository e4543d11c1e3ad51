--------------------------- MODULE ServeBootProofs ---------------------------
(***************************************************************************)
(* One boot of the server, for any number of INT and TERM signals at any   *)
(* point and a server that may die at any time.  Both hypotheses of Alone  *)
(* are needed: a HUP is not trapped, and two scripts share the pid file.   *)
(***************************************************************************)
EXTENDS ServeBoot, TLAPS

Alone == (\E s : Scripts = {s}) /\ Signals \subseteq {"INT", "TERM"}

\* Where the script is, or returns to once a cleanup is over.
Place(s) == IF pc[s] \in {"cleanup", "grace"} THEN back[s] ELSE pc[s]

Unrecorded == {"check", "launch", "record"}
Recorded == {"wait", "warm", "gates", "verdict", "exit"}

Types ==
  /\ pc \in [Scripts -> Unrecorded \cup Recorded \cup {"cleanup", "grace"}]
  /\ back \in [Scripts -> Unrecorded \cup Recorded]
  /\ outcome \in [Scripts -> {"running", "ready", "failed", "killed"}]
  /\ fail \in [Scripts -> BOOLEAN] /\ pending \in [Scripts -> BOOLEAN]
  /\ server \in [Scripts -> {"none", "starting", "loading", "up", "stopping", "dead"}]
  /\ target \in [Scripts -> Scripts \cup {NoPid}]
  /\ pidfile \in Scripts \cup {NoPid, StalePid}

\* Until the pid is recorded, no cleanup finds the server; before the launch
\* there is none.
BeforeRecord ==
  \A s \in Scripts :
    Place(s) \in Unrecorded =>
      /\ pidfile # s /\ target[s] = NoPid /\ pc[s] # "grace"
      /\ Place(s) # "record" => server[s] = "none"

\* From then on the pid file leads to the server, or a cleanup has told it to
\* stop, which it does not take back.
AfterRecord ==
  \A s \in Scripts :
    Place(s) \in Recorded =>
      \/ pidfile = s /\ target[s] = NoPid /\ pc[s] # "grace"
      \/ target[s] = s /\ server[s] \in {"stopping", "dead"}


ReadyAtVerdict == \A s \in Scripts : outcome[s] = "ready" => pc[s] = "verdict"

\* The inductive invariant.
IInv == Types /\ BeforeRecord /\ AfterRecord /\ ReadyAtVerdict /\ NoStrandedServer

-------------------------------------------------------------------------------
\* There is one script, and it is not one of the special pids.
LEMMA One ==
  ASSUME Alone, NEW s \in Scripts
  PROVE  Scripts = {s} /\ s # NoPid /\ s # StalePid /\ NoPid # StalePid
BY SignalAssumption DEF Alone, NoPid, StalePid

LEMMA InitInv == ASSUME Alone PROVE Init => IInv
<1> SUFFICES ASSUME Init PROVE IInv
  OBVIOUS
<1>1. Types
  BY DEF Init, Types, Unrecorded, Recorded
<1>2. BeforeRecord /\ AfterRecord /\ ReadyAtVerdict /\ NoStrandedServer
  BY One DEF Init, BeforeRecord, AfterRecord, ReadyAtVerdict, NoStrandedServer, Place,
             Recorded, Unrecorded
<1> QED
  BY <1>1, <1>2 DEF IInv

\* With one script the invariant speaks of that script only.
LEMMA Single ==
  ASSUME Alone, NEW s \in Scripts, Types',
         Place(s)' \in Unrecorded =>
           /\ pidfile' # s /\ target'[s] = NoPid /\ pc'[s] # "grace"
           /\ Place(s)' # "record" => server'[s] = "none",
         Place(s)' \in Recorded =>
           \/ pidfile' = s /\ target'[s] = NoPid /\ pc'[s] # "grace"
           \/ target'[s] = s /\ server'[s] \in {"stopping", "dead"},
         outcome'[s] = "ready" => pc'[s] = "verdict",
         outcome'[s] \in {"failed", "killed"} => server'[s] \in {"none", "stopping", "dead"}
  PROVE  IInv'
BY One DEF IInv, BeforeRecord, AfterRecord, ReadyAtVerdict, NoStrandedServer

\* A step of the script to its next command.
LEMMA ForwardInv ==
  ASSUME Alone, IInv, NEW s \in Scripts,
         Check(s) \/ Launch(s) \/ Record(s) \/ Answers(s) \/ Warm(s) \/ Gates(s)
  PROVE  IInv'
<1>1. Types'
  <2>1. CASE Warm(s) \/ Gates(s)
    <3>1. \E ok \in BOOLEAN : fail' = [fail EXCEPT ![s] = ok]
      BY <2>1 DEF Warm, Gates, IInv, Types
    <3>2. /\ \E place \in {"gates", "verdict"} : pc' = [pc EXCEPT ![s] = place]
          /\ UNCHANGED <<outcome, back, pending, server, target, pidfile>>
      BY <2>1 DEF Warm, Gates, Goto
    <3> QED
      BY <3>1, <3>2 DEF IInv, Types, Unrecorded, Recorded
  <2> QED
    BY <2>1 DEF Check, Launch, Record, Answers, Goto, End, IInv, Types, Unrecorded, Recorded
<1>2. CASE Check(s)
  BY <1>1, <1>2, One, Single DEF Check, At, Goto, End, IInv, Types, BeforeRecord, AfterRecord,
     ReadyAtVerdict, NoStrandedServer, Place, Unrecorded, Recorded
<1>3. CASE Launch(s)
  BY <1>1, <1>3, One, Single DEF Launch, At, Goto, IInv, Types, BeforeRecord, Place, Unrecorded,
     Recorded
<1>4. CASE Record(s)
  BY <1>1, <1>4, One, Single DEF Record, At, Goto, IInv, Types, BeforeRecord, Place, Unrecorded,
     Recorded
<1>5. CASE Answers(s) \/ Warm(s) \/ Gates(s)
  <2>1. /\ outcome[s] = "running" /\ pc[s] \in {"wait", "warm", "gates"}
        /\ \E there \in {"warm", "gates", "verdict"} : pc' = [pc EXCEPT ![s] = there]
        /\ UNCHANGED <<back, outcome, server, target, pidfile>>
    BY <1>5 DEF Answers, Warm, Gates, At, Goto
  <2> QED
    BY <1>1, <2>1, Single DEF IInv, Types, AfterRecord, Place, Unrecorded, Recorded
<1> QED
  BY <1>2, <1>3, <1>4, <1>5

\* A step into cleanup_on_fail, which will return where the script stood, or exit.
LEMMA CleanupInv ==
  ASSUME Alone, IInv, NEW s \in Scripts,
         outcome[s] = "running", pc[s] \notin {"cleanup", "grace"},
         pc' = [pc EXCEPT ![s] = "cleanup"],
         back' \in [Scripts -> Unrecorded \cup Recorded],
         back'[s] = pc[s] \/ (pc[s] \in Recorded /\ back'[s] = "exit"),
         UNCHANGED <<outcome, fail, server, target, pidfile>>,
         pending' \in [Scripts -> BOOLEAN]
  PROVE  IInv'
<1>1. Types'
  BY DEF IInv, Types
<1>2. /\ pc'[s] = "cleanup" /\ Place(s) = pc[s] /\ Place(s)' = back'[s]
  BY DEF IInv, Types, Place
<1> QED
  BY <1>1, <1>2, Single DEF IInv, BeforeRecord, AfterRecord, ReadyAtVerdict, Unrecorded, Recorded

\* The return from it; where it exits, the server is gone or told to stop.
LEMMA ReturnInv ==
  ASSUME Alone, IInv, NEW s \in Scripts, Return(s),
         outcome[s] = "running", pc[s] \in {"cleanup", "grace"},
         UNCHANGED <<back, fail, pending, server, target>>,
         pidfile' \in Scripts \cup {NoPid, StalePid},
         Place(s) \in Unrecorded => pidfile' = pidfile,
         Place(s) \in Recorded =>
           \/ pidfile' = s /\ target[s] = NoPid /\ pc[s] # "grace"
           \/ target[s] = s /\ server[s] \in {"stopping", "dead"},
         back[s] = "exit" => server[s] \in {"none", "stopping", "dead"}
  PROVE  IInv'
<1>1. Types'
  BY DEF Return, Goto, End, IInv, Types, Unrecorded, Recorded
<1>2. CASE back[s] = "exit"
  <2>1. outcome'[s] = "failed" /\ pc' = pc /\ Place(s)' = Place(s) /\ Place(s) = "exit"
    BY <1>2 DEF Return, End, IInv, Types, Place
  <2> QED
    BY <1>1, <1>2, <2>1, Single DEF Recorded, Unrecorded
<1>3. CASE back[s] # "exit"
  <2>1. /\ outcome' = outcome /\ pc' = [pc EXCEPT ![s] = back[s]] /\ Place(s) = back[s]
    BY <1>3 DEF Return, Goto, Place
  <2>2. pc'[s] = back[s] /\ Place(s)' = back[s] /\ (pc'[s] # "grace")
    BY <2>1 DEF IInv, Types, Place, Unrecorded, Recorded
  <2> QED
    BY <1>1, <2>1, <2>2, Single DEF IInv, BeforeRecord, ReadyAtVerdict, Unrecorded, Recorded
<1> QED
  BY <1>2, <1>3

LEMMA CleaningInv ==
  ASSUME Alone, IInv, NEW s \in Scripts, NothingToClean(s) \/ Terminate(s) \/ GraceOver(s)
  PROVE  IInv'
<1>1. Place(s) \in Unrecorded \cup Recorded /\ back[s] = "exit" => "exit" \in Recorded
  BY DEF Recorded
<1>2. CASE NothingToClean(s)
  <2>1. /\ pc[s] = "cleanup" /\ outcome[s] = "running" /\ Place(s) = back[s]
        /\ pidfile = s => ~ Alive(s)
        /\ Return(s) /\ UNCHANGED <<back, fail, pending, server, target, pidfile>>
    BY <1>2 DEF NothingToClean, At, Place
  <2>2. ~ Alive(s) => server[s] \in {"none", "dead"}
    BY DEF Alive, IInv, Types
  <2>3. back[s] = "exit" => server[s] \in {"none", "stopping", "dead"}
    BY <2>1, <2>2 DEF IInv, AfterRecord, Recorded
  <2>4. pidfile' \in Scripts \cup {NoPid, StalePid}
    BY <2>1 DEF IInv, Types
  <2> QED
    BY <2>1, <2>3, <2>4, ReturnInv DEF IInv, AfterRecord
<1>3. CASE Terminate(s)
  <2>1. /\ pc[s] = "cleanup" /\ outcome[s] = "running" /\ pidfile \in Scripts
        /\ server' = [server EXCEPT ![pidfile] = "stopping"]
        /\ target' = [target EXCEPT ![s] = pidfile]
        /\ pc' = [pc EXCEPT ![s] = "grace"]
        /\ UNCHANGED <<back, outcome, fail, pending, pidfile>>
    BY <1>3 DEF Terminate, At, Goto
  <2>2. pidfile = s
    BY <2>1, One
  <2>3. Types'
    BY <2>1, <2>2 DEF IInv, Types
  <2>4. /\ pc'[s] = "grace" /\ target'[s] = s /\ server'[s] = "stopping"
        /\ Place(s) = back[s] /\ Place(s)' = back[s]
    BY <2>1, <2>2 DEF IInv, Types, Place
  <2>5. back[s] \notin Unrecorded
    BY <2>2, <2>4 DEF IInv, BeforeRecord
  <2> QED
    BY <2>1, <2>3, <2>4, <2>5, Single
<1>4. CASE GraceOver(s)
  <2>1. /\ pc[s] = "grace" /\ outcome[s] = "running" /\ Place(s) = back[s]
        /\ pidfile' = NoPid
        /\ Return(s) /\ UNCHANGED <<back, fail, pending, server, target>>
    BY <1>4 DEF GraceOver, At, Place
  <2>2. Place(s) \notin Unrecorded
    BY <2>1 DEF IInv, BeforeRecord
  <2>3. target[s] = s /\ server[s] \in {"stopping", "dead"}
    BY <2>1, <2>2 DEF IInv, Types, AfterRecord
  <2> QED
    BY <2>1, <2>2, <2>3, ReturnInv
<1> QED
  BY <1>2, <1>3, <1>4

LEMMA LeavingInv ==
  ASSUME Alone, IInv, NEW s \in Scripts, Died(s) \/ Timeout(s) \/ Verdict(s) \/ Trap(s)
  PROVE  IInv'
<1>1. CASE Died(s)
  <2>1. /\ outcome' = [outcome EXCEPT ![s] = "failed"] /\ server[s] \in {"none", "dead"}
        /\ UNCHANGED <<pc, back, fail, pending, server, target, pidfile>>
    BY <1>1 DEF Died, Alive, End, IInv, Types
  <2>2. Types'
    BY <2>1 DEF IInv, Types
  <2>3. outcome'[s] = "failed" /\ Place(s)' = Place(s)
    BY <2>1 DEF IInv, Types, Place
  <2> QED
    BY <2>1, <2>2, <2>3, Single DEF IInv, BeforeRecord, AfterRecord
<1>2. CASE Timeout(s)
  BY <1>2, CleanupInv DEF Timeout, Cleanup, Goto, At, IInv, Types, Recorded
<1>3. CASE Verdict(s)
  <2>1. CASE fail[s]
    BY <1>3, <2>1, CleanupInv DEF Verdict, Cleanup, Goto, At, IInv, Types, Recorded
  <2>2. CASE ~ fail[s]
    <3>1. /\ pc[s] = "verdict" /\ outcome' = [outcome EXCEPT ![s] = "ready"]
          /\ UNCHANGED <<pc, back, fail, pending, server, target, pidfile>>
      BY <1>3, <2>2 DEF Verdict, At, End
    <3>2. Types'
      BY <3>1 DEF IInv, Types
    <3> QED
      BY <3>1, <3>2, Single DEF IInv, Types, BeforeRecord, AfterRecord, Place
  <2> QED
    BY <2>1, <2>2
<1>4. CASE Trap(s)
  <2>1. pending' \in [Scripts -> BOOLEAN]
    BY <1>4 DEF Trap, IInv, Types
  <2>2. /\ outcome[s] = "running" /\ pc[s] \notin {"cleanup", "grace"}
        /\ pc' = [pc EXCEPT ![s] = "cleanup"] /\ back' = [back EXCEPT ![s] = pc[s]]
        /\ UNCHANGED <<outcome, fail, server, target, pidfile>>
    BY <1>4 DEF Trap, Cleanup, Goto
  <2>3. back' \in [Scripts -> Unrecorded \cup Recorded] /\ back'[s] = pc[s]
    BY <2>2 DEF IInv, Types
  <2> QED
    BY <2>1, <2>2, <2>3, CleanupInv
<1> QED
  BY <1>1, <1>2, <1>3, <1>4

LEMMA SignalInv ==
  ASSUME Alone, IInv, NEW s \in Scripts, NEW sig \in Signals, Signal(s, sig)
  PROVE  IInv'
<1>1. sig \in {"INT", "TERM"}
  BY DEF Alone
<1>2. UNCHANGED <<pc, back, fail, server, target, pidfile>>
  BY DEF Signal
<1>3. \/ outcome' = outcome /\ pending' = [pending EXCEPT ![s] = TRUE]
      \/ pc[s] = "check" /\ outcome' = [outcome EXCEPT ![s] = "killed"] /\ pending' = pending
  BY <1>1 DEF Signal, End
<1>4. Types'
  BY <1>2, <1>3 DEF IInv, Types
<1>5. pc[s] = "check" => server[s] = "none"
  BY DEF IInv, BeforeRecord, Place, Unrecorded
<1>6. /\ Place(s)' = Place(s) /\ pc'[s] = pc[s] /\ pidfile' = pidfile
      /\ target'[s] = target[s] /\ server'[s] = server[s]
  BY <1>2 DEF Place
<1>7. /\ outcome'[s] = "ready" => pc'[s] = "verdict"
      /\ outcome'[s] \in {"failed", "killed"} => server'[s] \in {"none", "stopping", "dead"}
  BY <1>3, <1>5, <1>6 DEF IInv, Types, ReadyAtVerdict, NoStrandedServer
<1>8. /\ Place(s) \in Unrecorded =>
           /\ pidfile # s /\ target[s] = NoPid /\ pc[s] # "grace"
           /\ Place(s) # "record" => server[s] = "none"
      /\ Place(s) \in Recorded =>
           \/ pidfile = s /\ target[s] = NoPid /\ pc[s] # "grace"
           \/ target[s] = s /\ server[s] \in {"stopping", "dead"}
  BY DEF IInv, BeforeRecord, AfterRecord
<1> QED
  BY <1>4, <1>6, <1>7, <1>8, Single

\* A server that was told to stop, or is gone, never comes back.
LEMMA ServerInv ==
  ASSUME Alone, IInv, NEW s \in Scripts, ServerStep(s)
  PROVE  IInv'
<1>1. UNCHANGED <<pc, back, outcome, fail, pending, target, pidfile>>
  BY DEF ServerStep
<1>2. /\ server' \in [Scripts -> {"none", "starting", "loading", "up", "stopping", "dead"}]
      /\ server[s] # "none"
      /\ server[s] \in {"stopping", "dead"} => server'[s] = "dead"
  BY DEF ServerStep, Alive, IInv, Types
<1>3. Types'
  BY <1>1, <1>2 DEF IInv, Types
<1> QED
  BY <1>1, <1>2, <1>3, Single DEF IInv, BeforeRecord, AfterRecord, ReadyAtVerdict,
     NoStrandedServer, Place

LEMMA StepInv == ASSUME Alone PROVE IInv /\ [Next]_vars => IInv'
<1> SUFFICES ASSUME IInv, [Next]_vars PROVE IInv'
  OBVIOUS
<1>1. CASE UNCHANGED vars
  BY <1>1 DEF IInv, Types, BeforeRecord, AfterRecord, ReadyAtVerdict, NoStrandedServer, Place, vars
<1> QED
  BY <1>1, ForwardInv, CleaningInv, LeavingInv, SignalInv, ServerInv
  DEF Next, ScriptStep, Finished

LEMMA Invariant == ASSUME Alone PROVE Spec => []IInv
BY InitInv, StepInv, PTL DEF Spec

-------------------------------------------------------------------------------
\* "Any exit before READY must not strand a server holding four GPUs": however
\* many INT and TERM signals come, and whenever, a script that ends without
\* READY leaves no server that was not told to stop.
THEOREM NothingStranded == ASSUME Alone PROVE Spec => []NoStrandedServer
<1>1. IInv => NoStrandedServer
  BY DEF IInv
<1> QED
  BY <1>1, Invariant, PTL

\* The pid file names the server of a script that printed READY, unless that
\* script has torn it down.
THEOREM ReadyRecorded == ASSUME Alone PROVE Spec => []ReadyIsRecorded
<1>1. ASSUME IInv PROVE ReadyIsRecorded
  <2> SUFFICES ASSUME NEW s \in Scripts, outcome[s] = "ready", target[s] = NoPid
               PROVE  pidfile = s
    BY DEF ReadyIsRecorded
  <2>1. Place(s) \in Recorded
    BY <1>1 DEF IInv, ReadyAtVerdict, Place, Recorded
  <2> QED
    BY <1>1, <2>1, One DEF IInv, AfterRecord
<1> QED
  BY <1>1, Invariant, PTL
===============================================================================
