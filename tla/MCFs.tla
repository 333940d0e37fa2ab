-------------------------------- MODULE MCFs --------------------------------
(* Fs with model values for the processes, and the calls of its runs. *)
EXTENDS Fs

CONSTANTS p1, p2

x == <<"x">>
xy == <<"x", "y">>

Simple(ops, paths) == ops \X paths \X {<<>>}

\* Two names in the root and in a directory, and the empty path.
AllCalls ==
  Simple({"open", "create", "mkdir", "unlink", "chdir"}, {x, xy})
    \cup {<<"link", x, xy>>, <<"link", xy, x>>, <<"mknod", x, <<>>>>, <<"unlink", <<>>, <<>>>>}

IputCalls == Simple({"create", "unlink"}, {x, xy})

DotDotCalls == Simple({"mkdir", "chdir", "unlink"}, {x, xy, <<"..">>})

Symmetry == Permutations(Procs)
=============================================================================
