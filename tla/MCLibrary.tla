----------------------------- MODULE MCLibrary -----------------------------
(***************************************************************************)
(* The functions of Library and the page tables of Paging in one run.  The  *)
(* functions keep no state and do not see the tables, so it is enough to    *)
(* call them in the initial state of Paging.                                *)
(***************************************************************************)
EXTENDS Library, Paging

MCInit == LibraryInit /\ Init
MCNext ==
    \/ Init /\ LibraryNext /\ UNCHANGED vars
    \/ call = Idle /\ Next /\ UNCHANGED call
MCSpec == MCInit /\ [][MCNext]_<<call, vars>>

(* a, %%, %x, %#x, %##x, %u, %d, %c, %s, and %q, which is no conversion.    *)
MCPieces == { <<97>>, <<37, 37>>, <<37, 120>>, <<37, 35, 120>>, <<37, 35, 35, 120>>,
              <<37, 117>>, <<37, 100>>, <<37, 99>>, <<37, 115>>, <<37, 113>> }
MCWords == {0, 7, 300, 2047, 2048, 4095}
MCValues == 0 .. 300
MCDescriptors == {-1073741823, -1, 1073741823} \cup (0 .. 8)

(* The names of RootNames, the empty one, one more and one less letter, and *)
(* stdin, stdout, a beginning of both and one of stdout alone.              *)
MCFileNames ==
    { RootNames[d] : d \in 1 .. Len(RootNames) }
      \cup { << >>, K!HELLOO, K!SHEL, K!STDIN, K!STDOUT, SubSeq(K!STDIN, 1, 3),
             SubSeq(K!STDOUT, 1, 4) }

(* The pages at and around every boundary of the two levels.                *)
MCPages ==
    {0, VIDEO - 1, LARGE - 1, KERNEL, KERNEL + LARGE - 1, KERNEL + LARGE,
     USER_VIDEO - 1, USER_VIDEO, USER_VIDEO + 1,
     PROGRAM - 1, PROGRAM, PROGRAM + 1, PROGRAM + LARGE - 1, PROGRAM + LARGE}
      \cup (VIDEO .. VIDEO + SHELL_NUM + 1)
=============================================================================
