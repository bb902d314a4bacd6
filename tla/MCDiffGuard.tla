---------------------------- MODULE MCDiffGuard -----------------------------
(* Small instances of DiffGuard for TLC. *)
EXTENDS DiffGuard

\* A source file, a test, a lock file, a file that does not exist yet and a
\* cache file; the new file may get the content of the test, also edited.
MCFiles    == {"src", "test", "lock", "new", "pyc"}
MCPossible == [src |-> {0, 1, 2}, test |-> {0, 2, 3, 9}, lock |-> {1, 2},
               new |-> {0, 2, 9}, pyc |-> {0, 1, 9}]
MCSimilar  == { {2, 9} }
MCBaseline == [src |-> 1, test |-> 2, lock |-> 1, new |-> 0, pyc |-> 1]

Contract(allowed, protected, permitted, changed, new) ==
  [allowed |-> allowed, protected |-> protected, permitted |-> permitted,
   maxChanged |-> changed, maxNew |-> new, deps |-> FALSE]

MCContracts ==
  { Contract({"src", "pyc"}, {}, {}, 2, 0),
    Contract({"test"}, {}, {}, 1, 0),
    Contract({"src", "new"}, {"test"}, {"new"}, 2, 1),
    [Contract({"src", "lock"}, {}, {"lock"}, 2, 0) EXCEPT !.deps = TRUE] }
=============================================================================
