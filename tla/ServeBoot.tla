------------------------------- MODULE ServeBoot -------------------------------
(***************************************************************************)
(* scripts/serve-qwen38-native.sh: one boot of the server, from the GPU    *)
(* check to READY or to a failed exit.  The script launches the server in  *)
(* a session of its own, records its pid, polls it, sends it one warm      *)
(* request and reads its log through a list of gates.  INT and TERM run    *)
(* cleanup_on_fail through a trap, between two commands, and the script    *)
(* then goes on where it was; any other signal ends it.                    *)
(*                                                                         *)
(* The server is external: it loads, comes up, may die at any time, and    *)
(* takes as long as it likes to stop.  Two scripts started from the same   *)
(* checkout share the pid file.                                            *)
(***************************************************************************)
EXTENDS Naturals, FiniteSets

CONSTANTS
  Scripts,      \* the invocations of the script
  Signals,      \* the signals the operator or the terminal may send
  MaxSignals    \* bound: how many are sent

ASSUME SignalAssumption ==
  /\ Signals \subseteq {"INT", "TERM", "HUP"} /\ MaxSignals \in Nat
  /\ Scripts \cap {"none", "stale"} = {}

NoPid == "none"     \* no pid file, or an empty one
StalePid == "stale" \* the pid file of an earlier boot, its process long gone

VARIABLES
  pc,       \* where the script is
  back,     \* where cleanup_on_fail returns to, "exit" for exit 1
  outcome,  \* "running", then "ready", "failed" or "killed" (by a signal)
  fail,     \* FAIL: some gate did not pass, or the warm request failed
  pending,  \* an INT or TERM the trap has still to serve
  server,   \* the server each script launched
  target,   \* the pid cleanup_on_fail read
  pidfile,  \* $PIDFILE
  sent      \* signals sent so far
vars == <<pc, back, outcome, fail, pending, server, target, pidfile, sent>>

Init ==
  /\ pc = [s \in Scripts |-> "check"]
  /\ back = [s \in Scripts |-> "exit"]
  /\ outcome = [s \in Scripts |-> "running"]
  /\ fail = [s \in Scripts |-> FALSE]
  /\ pending = [s \in Scripts |-> FALSE]
  /\ server = [s \in Scripts |-> "none"]
  /\ target = [s \in Scripts |-> NoPid]
  /\ pidfile \in {NoPid, StalePid}
  /\ sent = 0

At(s, here) == outcome[s] = "running" /\ pc[s] = here
Goto(s, there) == pc' = [pc EXCEPT ![s] = there]
End(s, how) == outcome' = [outcome EXCEPT ![s] = how]
Cleanup(s, then) == Goto(s, "cleanup") /\ back' = [back EXCEPT ![s] = then]
Alive(s) == server[s] \in {"starting", "loading", "up", "stopping"}
Occupied == \E s \in Scripts : server[s] \in {"loading", "up", "stopping"}

-------------------------------------------------------------------------------
(* nvidia-smi: give up when some GPU is in use.                            *)
Check(s) ==
  /\ At(s, "check")
  /\ IF Occupied THEN End(s, "failed") /\ UNCHANGED pc
                 ELSE Goto(s, "launch") /\ UNCHANGED outcome
  /\ UNCHANGED <<back, fail, pending, server, target, pidfile, sent>>

(* setsid ... &                                                            *)
Launch(s) ==
  /\ At(s, "launch")
  /\ server' = [server EXCEPT ![s] = "starting"]
  /\ Goto(s, "record")
  /\ UNCHANGED <<back, outcome, fail, pending, target, pidfile, sent>>

\* A plausible slip: the pid file of an earlier boot kept when there is one.
RecordIfAbsent(s) ==
  /\ At(s, "record")
  /\ pidfile' = IF pidfile = NoPid THEN s ELSE pidfile
  /\ Goto(s, "wait")
  /\ UNCHANGED <<back, outcome, fail, pending, server, target, sent>>

(* echo $! > PIDFILE                                                       *)
Record(s) ==
  /\ At(s, "record")
  /\ pidfile' = s
  /\ Goto(s, "wait")
  /\ UNCHANGED <<back, outcome, fail, pending, server, target, sent>>

(* The polling loop: the server answers, ...                               *)
Answers(s) ==
  /\ At(s, "wait")
  /\ server[s] = "up"
  /\ Goto(s, "warm")
  /\ UNCHANGED <<back, outcome, fail, pending, server, target, pidfile, sent>>

(* ... is found dead, ...                                                  *)
Died(s) ==
  /\ At(s, "wait")
  /\ ~ Alive(s)
  /\ End(s, "failed")
  /\ UNCHANGED <<pc, back, fail, pending, server, target, pidfile, sent>>

\* A plausible slip: the timeout exits like the "SERVER DIED" branch above it.
TimeoutNoCleanup(s) ==
  /\ At(s, "wait")
  /\ server[s] # "up"
  /\ End(s, "failed")
  /\ UNCHANGED <<pc, back, fail, pending, server, target, pidfile, sent>>

\* A plausible slip: the loop without its bound, left on death only.
PollForever(s) ==
  /\ At(s, "wait")
  /\ ~ Alive(s)
  /\ Cleanup(s, "exit")
  /\ UNCHANGED <<outcome, fail, pending, server, target, pidfile, sent>>

(* ... or never comes up.                                                  *)
Timeout(s) ==
  /\ At(s, "wait")
  /\ server[s] # "up"
  /\ Cleanup(s, "exit")
  /\ UNCHANGED <<outcome, fail, pending, server, target, pidfile, sent>>

(* The warm request: it can only succeed on a server that is up.           *)
Warm(s) ==
  /\ At(s, "warm")
  /\ \E ok \in IF server[s] = "up" THEN BOOLEAN ELSE {FALSE} :
       fail' = [fail EXCEPT ![s] = ~ ok]
  /\ Goto(s, "gates")
  /\ UNCHANGED <<back, outcome, pending, server, target, pidfile, sent>>

(* The gates read the log; whatever they find, the warm verdict stands.    *)
Gates(s) ==
  /\ At(s, "gates")
  /\ \E ok \in BOOLEAN : fail' = [fail EXCEPT ![s] = @ \/ ~ ok]
  /\ Goto(s, "verdict")
  /\ UNCHANGED <<back, outcome, pending, server, target, pidfile, sent>>

\* A plausible slip: BOOT GATE FAILED exits without the teardown.
VerdictNoCleanup(s) ==
  /\ At(s, "verdict")
  /\ End(s, IF fail[s] THEN "failed" ELSE "ready")
  /\ UNCHANGED <<pc, back, fail, pending, server, target, pidfile, sent>>

(* READY, or BOOT GATE FAILED and the teardown.                            *)
Verdict(s) ==
  /\ At(s, "verdict")
  /\ IF fail[s] THEN Cleanup(s, "exit") /\ UNCHANGED outcome
                ELSE End(s, "ready") /\ UNCHANGED <<pc, back>>
  /\ UNCHANGED <<fail, pending, server, target, pidfile, sent>>

-------------------------------------------------------------------------------
Return(s) ==
  IF back[s] = "exit" THEN End(s, "failed") /\ UNCHANGED pc
                      ELSE Goto(s, back[s]) /\ UNCHANGED outcome

(* cleanup_on_fail: nothing recorded, or nothing alive under that pid.     *)
NothingToClean(s) ==
  /\ At(s, "cleanup")
  /\ pidfile \in Scripts => ~ Alive(pidfile)
  /\ Return(s)
  /\ UNCHANGED <<back, fail, pending, server, target, pidfile, sent>>

(* cleanup_on_fail: TERM to the process group of the recorded pid.         *)
Terminate(s) ==
  /\ At(s, "cleanup")
  /\ pidfile \in Scripts /\ Alive(pidfile)
  /\ server' = [server EXCEPT ![pidfile] = "stopping"]
  /\ target' = [target EXCEPT ![s] = pidfile]
  /\ Goto(s, "grace")
  /\ UNCHANGED <<back, outcome, fail, pending, pidfile, sent>>

(* It waits 30 s at most, then removes the pid file in any case.           *)
GraceOver(s) ==
  /\ At(s, "grace")
  /\ pidfile' = NoPid
  /\ Return(s)
  /\ UNCHANGED <<back, fail, pending, server, target, sent>>

(* The trap runs between two commands and returns to the next one.         *)
Trap(s) ==
  /\ outcome[s] = "running" /\ pending[s]
  /\ pc[s] \notin {"check", "cleanup", "grace"}
  /\ pending' = [pending EXCEPT ![s] = FALSE]
  /\ Cleanup(s, pc[s])
  /\ UNCHANGED <<outcome, fail, server, target, pidfile, sent>>

(* A signal: trapped from the trap command on, fatal otherwise.            *)
Signal(s, sig) ==
  /\ outcome[s] = "running" /\ sent < MaxSignals
  /\ sent' = sent + 1
  /\ IF sig \in {"INT", "TERM"} /\ pc[s] # "check"
       THEN pending' = [pending EXCEPT ![s] = TRUE] /\ UNCHANGED outcome
       ELSE End(s, "killed") /\ UNCHANGED pending
  /\ UNCHANGED <<pc, back, fail, server, target, pidfile>>

(* The server's own life.                                                  *)
ServerStep(s) ==
  /\ \/ server[s] = "starting" /\ server' = [server EXCEPT ![s] = "loading"]
     \/ server[s] = "loading" /\ server' = [server EXCEPT ![s] = "up"]
     \/ Alive(s) /\ server' = [server EXCEPT ![s] = "dead"]
  /\ UNCHANGED <<pc, back, outcome, fail, pending, target, pidfile, sent>>

(* Every script has ended and no server is left to move.                   *)
Finished ==
  /\ \A s \in Scripts : outcome[s] # "running" /\ ~ Alive(s)
  /\ UNCHANGED vars

ScriptStep(s) ==
  \/ Check(s) \/ Launch(s) \/ Record(s) \/ Answers(s) \/ Died(s) \/ Timeout(s)
  \/ Warm(s) \/ Gates(s) \/ Verdict(s)
  \/ NothingToClean(s) \/ Terminate(s) \/ GraceOver(s) \/ Trap(s)

Next ==
  \/ \E s \in Scripts : ScriptStep(s) \/ ServerStep(s)
  \/ \E s \in Scripts, sig \in Signals : Signal(s, sig)
  \/ Finished

Spec == Init /\ [][Next]_vars

\* Every loop of the script is bounded, and a server told to stop stops.
FairSpec ==
  /\ Spec
  /\ \A s \in Scripts : WF_vars(ScriptStep(s))
  /\ \A s \in Scripts : WF_vars(server[s] = "stopping" /\ ServerStep(s))

-------------------------------------------------------------------------------
(* "Any exit before READY must not strand a server holding four GPUs": a   *)
(* script that ended without READY leaves no server that nobody told to    *)
(* stop.                                                                   *)
NoStrandedServer ==
  \A s \in Scripts :
    outcome[s] \in {"failed", "killed"} =>
      server[s] \in {"none", "stopping", "dead"}

(* The same, as the operator sees it: after a failed boot the GPUs come    *)
(* free.                                                                   *)
FailedBootFreesGpus ==
  \A s \in Scripts : (outcome[s] = "failed") ~> ~ Alive(s)

(* The pid file names the server of a script that printed READY, as the    *)
(* stop instructions assume, unless that script tore it down.              *)
ReadyIsRecorded ==
  \A s \in Scripts : outcome[s] = "ready" /\ target[s] = NoPid => pidfile = s

(* The script always ends.                                                 *)
ScriptEnds == \A s \in Scripts : <>(outcome[s] # "running")
===============================================================================
