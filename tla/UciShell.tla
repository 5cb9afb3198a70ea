------------------------------ MODULE UciShell ------------------------------
(***************************************************************************)
(* UCI as the requests use it.                                             *)
(*                                                                         *)
(*   backend/utils/uci.go, backend/utils/batch_command.go                  *)
(*                                                                         *)
(* A package is a file, and what "uci set" has staged on top of it until   *)
(* "uci commit"; procd reloads the services of a package on an event.      *)
(* go-uci reads the file alone.  A request builds a plan: the commands its *)
(* shells run, in order, and whether it is answered with success when all  *)
(* of them have run.  The shells run under the context of the request: a   *)
(* client that goes away has them killed at any command.                   *)
(***************************************************************************)
EXTENDS Integers, Sequences, SequencesExt

\* An option is <<package, name>>; its value a sequence, empty when it is not set.
Unset == <<>>
Set(o, v) == [op |-> "set", opt |-> o, val |-> <<v>>]
AddList(o, v) == [op |-> "add", opt |-> o, val |-> <<v>>]
Del(o) == [op |-> "set", opt |-> o, val |-> Unset]
Commit(p) == [op |-> "commit", pkg |-> p]
Event(p) == [op |-> "event", pkg |-> p]

\* A batch under a context of its own: nothing cuts it off.
Background(cmds) == [op |-> "batch", cmds |-> cmds]

UciCommitAndApply(configs) == FlattenSeq([n \in DOMAIN configs |-> <<Commit(configs[n]), Event(configs[n])>>])

OfPackage(to, from, p) == [o \in DOMAIN to |-> IF o[1] = p THEN from[o] ELSE to[o]]

ExecOne(s, c) ==
  CASE c.op = "set"    -> [s EXCEPT !.staged[c.opt] = c.val]
    [] c.op = "add"    -> [s EXCEPT !.staged[c.opt] = @ \o c.val]
    [] c.op = "commit" -> [s EXCEPT !.file = OfPackage(@, s.staged, c.pkg)]
    [] c.op = "event"  -> [s EXCEPT !.live = OfPackage(@, s.file, c.pkg)]

Exec(s, c) == IF c.op = "batch" THEN FoldLeft(ExecOne, s, c.cmds) ELSE ExecOne(s, c)

\* BatchRun: what is there after each of the commands, up to the one it is killed at.
BatchRun(s, cmds) ==
  LET ran[k \in 0 .. Len(cmds)] == IF k = 0 THEN s ELSE Exec(ran[k - 1], cmds[k]) IN ran

\* The options a list of commands writes.
Written(cmds) ==
  LET flat == FlattenSeq([n \in DOMAIN cmds |-> IF cmds[n].op = "batch" THEN cmds[n].cmds ELSE <<cmds[n]>>])
  IN  {flat[n].opt : n \in {m \in DOMAIN flat : flat[m].op \in {"set", "add"}}}

Refuse == [cmds |-> <<>>, ok |-> FALSE]
Do(cmds) == [cmds |-> cmds, ok |-> TRUE]
FailAfter(cmds) == [cmds |-> cmds, ok |-> FALSE]

\* GetLast of a value, with what stands for none.
Last1(v, none) == IF v = Unset THEN none ELSE v[Len(v)]
=============================================================================
