------------------------------- MODULE Children -------------------------------
(***************************************************************************)
(* The programs a process of ETB runs: an adapter, which takes a request on *)
(* its standard input and replies on its standard output                    *)
(* (src/runtime/capability.c), and a prover, which works on files           *)
(* (src/runtime/distributed.c 700-737). Each process runs one at a time.    *)
(*                                                                          *)
(* Requests and replies are counted in units, a pipe holds Capacity of      *)
(* them. What a child does is its own: it may read before it writes, write  *)
(* before it reads or not read at all, and die at any time.                 *)
(***************************************************************************)
EXTENDS Naturals

CONSTANTS
  Procs,     \* processes that run a child
  Plans,     \* what a process runs, see Plan
  Capacity   \* units a pipe holds

Plan ==
  [kind : {"adapter", "prover", "nothing"},
   request : Nat, reply : Nat,          \* their sizes, 0 for a prover
   reads : {"first", "last", "never"},  \* when the child reads its request
   served : BOOLEAN]                    \* whether the process ignores SIGCHLD

ASSUME ChildrenAssumption ==
  /\ Plans \subseteq Plan
  /\ \A pl \in Plans : pl.kind # "adapter" => pl.request = 0 /\ pl.reply = 0
  /\ Capacity \in Nat \ {0}

VARIABLES
  plan,      \* what each process runs
  call,      \* where each process is with it
  left,      \* units of the request still to write
  input,     \* units in the pipe to the child
  open,      \* whether the process holds its end of that pipe
  output,    \* units in the pipe from the child
  got,       \* units of the reply that were read
  child,     \* whether the child runs, has exited with 0 or has failed
  wrote      \* units of the reply the child wrote

childVars == <<plan, call, left, input, open, output, got, child, wrote>>

Over == {"done", "failed", "killed"}

ChildrenInit ==
  /\ plan \in [Procs -> Plans]
  /\ call = [p \in Procs |-> "idle"] /\ child = [p \in Procs |-> "none"]
  /\ left = [p \in Procs |-> plan[p].request]
  /\ open = [p \in Procs |-> TRUE]
  /\ input = [p \in Procs |-> 0] /\ output = [p \in Procs |-> 0]
  /\ got = [p \in Procs |-> 0] /\ wrote = [p \in Procs |-> 0]

-----------------------------------------------------------------------------
(* The process. *)

\* posix_spawn. Nobody waits for a prover but waitpid.
Spawn(p) ==
  /\ call[p] = "idle" /\ plan[p].kind # "nothing"
  /\ \/ /\ child' = [child EXCEPT ![p] = "runs"]
        /\ call' = [call EXCEPT ![p] = IF plan[p].kind = "adapter" THEN "writes" ELSE "waits"]
     \/ call' = [call EXCEPT ![p] = "failed"] /\ UNCHANGED child
  /\ UNCHANGED <<plan, left, input, open, output, got, wrote>>

\* One write of the whole request: the kernel moves it as the pipe has room.
WriteUnit(p) ==
  /\ call[p] = "writes" /\ left[p] > 0 /\ child[p] = "runs" /\ input[p] < Capacity
  /\ left' = [left EXCEPT ![p] = @ - 1]
  /\ input' = [input EXCEPT ![p] = @ + 1]
  /\ UNCHANGED <<plan, call, open, output, got, child, wrote>>

\* SIGPIPE is not handled: writing to a child that is gone kills the process.
WriteToNobody(p) ==
  /\ call[p] = "writes" /\ left[p] > 0 /\ child[p] \in {"ok", "bad"}
  /\ call' = [call EXCEPT ![p] = "killed"]
  /\ UNCHANGED <<plan, left, input, open, output, got, child, wrote>>

\* Slip: the end of the pipe to the child is kept.
AfterWriteOpen(p) ==
  /\ call' = [call EXCEPT ![p] = "reads"]
  /\ UNCHANGED open
AfterWrite(p) ==
  /\ call' = [call EXCEPT ![p] = "reads"]
  /\ open' = [open EXCEPT ![p] = FALSE]

CloseInput(p) ==
  /\ call[p] = "writes" /\ left[p] = 0
  /\ AfterWrite(p)
  /\ UNCHANGED <<plan, left, input, output, got, child, wrote>>

ReadUnit(p) ==
  /\ call[p] = "reads" /\ output[p] > 0
  /\ output' = [output EXCEPT ![p] = @ - 1]
  /\ got' = [got EXCEPT ![p] = @ + 1]
  /\ UNCHANGED <<plan, call, left, input, open, child, wrote>>

ReadEnd(p) ==
  /\ call[p] = "reads" /\ output[p] = 0 /\ child[p] \in {"ok", "bad"}
  /\ call' = [call EXCEPT ![p] = "waits"]
  /\ UNCHANGED <<plan, left, input, open, output, got, child, wrote>>

\* A process that ignores SIGCHLD has no status to wait for: waitpid returns
\* an error when the child is gone. A reply that was cut does not decode.
\* Slip: the status is not looked at.
SucceededUnchecked(p) == got[p] = plan[p].reply
Succeeded(p) == ~plan[p].served /\ child[p] = "ok" /\ got[p] = plan[p].reply

WaitPid(p) ==
  /\ call[p] = "waits" /\ child[p] \in {"ok", "bad"}
  /\ call' = [call EXCEPT ![p] = IF Succeeded(p) THEN "done" ELSE "failed"]
  /\ UNCHANGED <<plan, left, input, open, output, got, child, wrote>>

Process(p) ==
  Spawn(p) \/ WriteUnit(p) \/ WriteToNobody(p) \/ CloseInput(p) \/ ReadUnit(p)
    \/ ReadEnd(p) \/ WaitPid(p)

-----------------------------------------------------------------------------
(* The child. *)

AtEnd(p) == input[p] = 0 /\ ~open[p]
HasRead(p) == AtEnd(p) \/ plan[p].reads = "never"
HasWritten(p) == wrote[p] = plan[p].reply

ChildReads(p) ==
  /\ child[p] = "runs" /\ input[p] > 0
  /\ plan[p].reads = "first" \/ (plan[p].reads = "last" /\ HasWritten(p))
  /\ input' = [input EXCEPT ![p] = @ - 1]
  /\ UNCHANGED <<plan, call, left, open, output, got, child, wrote>>

\* A process that has died or given up no longer reads.
ChildWrites(p) ==
  /\ child[p] = "runs" /\ ~HasWritten(p) /\ output[p] < Capacity
  /\ plan[p].reads = "first" => AtEnd(p)
  /\ call[p] \notin Over
  /\ output' = [output EXCEPT ![p] = @ + 1]
  /\ wrote' = [wrote EXCEPT ![p] = @ + 1]
  /\ UNCHANGED <<plan, call, left, input, open, got, child>>

ChildExits(p) ==
  /\ child[p] = "runs" /\ HasWritten(p)
  /\ plan[p].kind = "prover" \/ HasRead(p)
  /\ child' = [child EXCEPT ![p] = "ok"]
  /\ UNCHANGED <<plan, call, left, input, open, output, got, wrote>>

ChildFails(p) ==
  /\ child[p] = "runs"
  /\ child' = [child EXCEPT ![p] = "bad"]
  /\ UNCHANGED <<plan, call, left, input, open, output, got, wrote>>

Child(p) == ChildReads(p) \/ ChildWrites(p) \/ ChildExits(p)

ChildrenNext == \E p \in Procs : Process(p) \/ Child(p) \/ ChildFails(p)

ChildrenSpec == ChildrenInit /\ [][ChildrenNext]_childVars

-----------------------------------------------------------------------------
(* Properties. *)

\* A call succeeds only on the whole reply of a child that had the whole
\* request and ended well (capability.c 314-336, distributed.c 729-735).
OkOnlyOnWholeReply ==
  \A p \in Procs : call[p] = "done" =>
    /\ child[p] = "ok" /\ got[p] = plan[p].reply
    /\ plan[p].reads # "never" => left[p] = 0 /\ input[p] = 0

\* The proof of a prover that ended well reaches the process that ran it, as
\* the diagrams of the live query have it (docs/architecture.md 138-147).
ProofReachesNode ==
  \A p \in Procs : plan[p].kind = "prover" /\ child[p] = "ok" => call[p] # "failed"

=============================================================================
