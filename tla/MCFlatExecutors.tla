---------------------------- MODULE MCFlatExecutors ----------------------------
EXTENDS FlatExecutors, TLC

CONSTANTS s1, s2

With(callback, mode, group) == [callback |-> callback, mode |-> mode, group |-> group]
Pair(a, b) == (s1 :> a) @@ (s2 :> b)

push == "CallbackPush"
pull == "WaitSetPull"

\* Every option at least once, next to one that shares a thread or a group with it.
MCConfigs ==
  {Pair(With(TRUE, push, "none"),       With(TRUE, pull, "none")),
   Pair(With(TRUE, push, "exclusive"),  With(TRUE, pull, "exclusive")),
   Pair(With(TRUE, push, "reentrant"),  With(TRUE, pull, "exclusive")),
   Pair(With(TRUE, pull, "manual"),     With(TRUE, push, "none")),
   Pair(With(FALSE, pull, "none"),      With(TRUE, push, "exclusive")),
   Pair(With(FALSE, push, "manual"),    With(TRUE, pull, "none")),
   Pair(With(FALSE, pull, "exclusive"), With(TRUE, push, "exclusive"))}

MCForeign == {2}
===============================================================================
