------------------------------ MODULE Sandbox ------------------------------
(* execution/executor.py and runtime/docker_runtime.py: one command, in a   *)
(* process group of its own or as the client of a container. The command    *)
(* writes units of output into a pipe that holds PIPE of them; it may start *)
(* processes that stay in its group and ones that leave it. Time is whether *)
(* the deadline has passed.                                                  *)
EXTENDS Integers

CONSTANTS LIMIT,       \* max_output
          PIPE,
          MaxOutput    \* bounds the output of the command

VARIABLES
    docker,            \* the command is run in a container
    pc, child,
    kin, stray,        \* other processes with the pipe: of the group, out of it
    written, total, kept,   \* output: written, drained, kept
    due, cancel,
    flag,              \* "none", "timed_out" or "cancelled"
    container,         \* "none", "asked" (of the daemon), "running", "gone"
    late, rmFails,     \* history: created after the client was killed; docker rm failed
    result

vars == <<docker, pc, child, kin, stray, written, total, kept, due, cancel, flag, container, late, rmFails, result>>
world == <<docker, kin, stray, written, due, cancel, late, rmFails>>

NoResult == [success |-> FALSE, truncated |-> FALSE, flag |-> "none"]
Init ==
    /\ docker \in BOOLEAN /\ pc = "start" /\ child = "none" /\ kin = FALSE /\ stray = FALSE
    /\ written = 0 /\ total = 0 /\ kept = 0 /\ due = FALSE /\ cancel = FALSE /\ flag = "none"
    /\ container = "none" /\ late = FALSE /\ rmFails = FALSE /\ result = NoResult

Alive == child = "running"

(* DockerRuntime.run_command without a daemon or a workspace                *)
Unavailable == /\ pc = "start" /\ docker /\ pc' = "done"
               /\ UNCHANGED <<world, child, total, kept, flag, container, result>>
(* subprocess.Popen; an error is a result too                               *)
Start == /\ pc = "start"
         /\ \/ child' = "running" /\ pc' = "wait" /\ container' = IF docker THEN "asked" ELSE "none"
            \/ child' = "none" /\ pc' = "done" /\ UNCHANGED container
         /\ UNCHANGED <<world, total, kept, flag, result>>
-----------------------------------------------------------------------------
(* What the command, its children, people and the clock do                  *)
Write == /\ Alive /\ written < MaxOutput /\ written - total < PIPE /\ written' = written + 1
         /\ UNCHANGED <<docker, pc, child, kin, stray, total, kept, due, cancel, flag, container, late, rmFails, result>>
Spawn == /\ Alive /\ ~docker /\ \/ kin' = TRUE /\ stray' = stray
                                \/ stray' = TRUE /\ kin' = kin
         /\ UNCHANGED <<docker, pc, child, written, total, kept, due, cancel, flag, container, late, rmFails, result>>
Exit(code) == /\ Alive /\ (docker => container = "running" \/ code = "bad")
              /\ child' = code
              /\ container' = IF docker THEN "gone" ELSE container
              /\ UNCHANGED <<world, pc, total, kept, flag, result>>
Create == /\ container = "asked" /\ container' = "running" /\ late' = (late \/ ~Alive)
          /\ UNCHANGED <<docker, pc, child, kin, stray, written, total, kept, due, cancel, flag, rmFails, result>>
Request == /\ ~cancel /\ cancel' = TRUE
           /\ UNCHANGED <<docker, pc, child, kin, stray, written, total, kept, due, flag, container, late, rmFails, result>>
Deadline == /\ ~due /\ due' = TRUE
            /\ UNCHANGED <<docker, pc, child, kin, stray, written, total, kept, cancel, flag, container, late, rmFails, result>>

(* _Capture.run: drains everything, keeps at most LIMIT                     *)
Capture == /\ total < written /\ total' = total + 1
           /\ kept' = IF total < LIMIT THEN kept + 1 ELSE kept
           /\ UNCHANGED <<world, pc, child, flag, container, result>>
-----------------------------------------------------------------------------
(* _run: proc.wait returns, or expires and the flags are looked at          *)
Wait == /\ pc = "wait"
        /\ pc' = IF Alive THEN "expired" ELSE "reap"
        /\ UNCHANGED <<world, child, total, kept, flag, container, result>>

(* _kill_group                                                              *)
Kill == child' = (IF Alive THEN "killed" ELSE child) /\ kin' = FALSE

Expired == /\ pc = "expired"
           /\ IF cancel \/ due
              THEN /\ flag' = (IF cancel THEN "cancelled" ELSE "timed_out")
                   /\ Kill /\ pc' = "join"
              ELSE pc' = "wait" /\ UNCHANGED <<flag, child, kin>>
           /\ UNCHANGED <<docker, stray, written, total, kept, due, cancel, container, late, rmFails, result>>

(* mutant: what the command left behind is not killed *)
ReapNothing == pc = "reap" /\ pc' = "join" /\ UNCHANGED <<world, child, total, kept, flag, container, result>>
(* _kill_group_quietly                                                      *)
Reap == /\ pc = "reap" /\ Kill /\ pc' = "join"
        /\ UNCHANGED <<docker, stray, written, total, kept, due, cancel, flag, container, late, rmFails, result>>

Eof == ~Alive /\ ~kin /\ ~stray /\ total = written
(* mutant: the pipe is waited for without a timeout *)
JoinForever == /\ pc = "join" /\ Eof
               /\ result' = [success |-> child = "ok" /\ flag = "none", truncated |-> total > LIMIT, flag |-> flag]
               /\ pc' = IF docker /\ flag # "none" THEN "remove" ELSE "done"
               /\ UNCHANGED <<world, child, total, kept, flag, container>>
(* mutant: only the exit code counts *)
JoinByCode == /\ pc = "join" /\ (Eof \/ stray)
              /\ result' = [success |-> child = "ok", truncated |-> total > LIMIT, flag |-> flag]
              /\ pc' = IF docker /\ flag # "none" THEN "remove" ELSE "done"
              /\ UNCHANGED <<world, child, total, kept, flag, container>>
(* join: the end of the pipe, or five seconds if a process that left the    *)
(* group holds it open; then _result                                        *)
Join == /\ pc = "join" /\ (Eof \/ stray)
        /\ result' = [success |-> child = "ok" /\ flag = "none", truncated |-> total > LIMIT, flag |-> flag]
        /\ pc' = IF docker /\ flag # "none" THEN "remove" ELSE "done"
        /\ UNCHANGED <<world, child, total, kept, flag, container>>

(* mutant: only after a timeout *)
RemoveAfterTimeout ==
    /\ pc = "remove" /\ pc' = "done"
    /\ container' = IF container = "running" /\ flag = "timed_out" THEN "gone" ELSE container
    /\ UNCHANGED <<world, child, total, kept, flag, result>>
(* docker rm -f: there may be nothing to remove yet; it may fail, and when  *)
(* it takes thirty seconds the exception is the caller's                    *)
Remove == /\ pc = "remove"
          /\ \/ container' = (IF container = "running" THEN "gone" ELSE container) /\ rmFails' = rmFails /\ pc' = "done"
             \/ container' = container /\ rmFails' = TRUE /\ pc' \in {"done", "raised"}
          /\ UNCHANGED <<docker, kin, stray, written, due, cancel, late, child, total, kept, flag, result>>
-----------------------------------------------------------------------------
Runner == Unavailable \/ Start \/ Wait \/ Expired \/ Reap \/ Join \/ Remove
Next == Runner \/ Write \/ Spawn \/ (\E code \in {"ok", "bad"} : Exit(code)) \/ Create \/ Request \/ Deadline \/ Capture
Spec == Init /\ [][Next]_vars

(* executor._run: when a command is over, nothing of its process group is   *)
(* left, however it ended and whatever it started.                          *)
NothingSurvives == (pc \in {"done", "raised"}) => (~Alive /\ ~kin)

(* The result is true: success means the command ended well by itself, the  *)
(* output is the first LIMIT units, and without "truncated" it is whole,    *)
(* unless a process that left the group still held the pipe.                *)
ResultIsTrue ==
    /\ kept <= LIMIT
    /\ pc = "done" => /\ result.success => (child = "ok" /\ result.flag = "none")
                      /\ (result.success /\ ~result.truncated /\ ~stray) => kept = written

(* DockerRuntime.run_command: a command that timed out or was cancelled     *)
(* leaves no container running, unless the daemon created it only after the *)
(* client was killed or would not remove it.                                *)
ContainerIsRemoved == (pc = "done" /\ result.flag # "none" /\ container = "running") => (late \/ rmFails)

(* Every command ends, whatever it and its children do: the deadline comes, *)
(* pipes are drained while it runs and not waited for without end after.    *)
Waiting == pc = "wait"
Over == pc \in {"done", "raised"}
=============================================================================
