-------------------------------- MODULE Paths --------------------------------
(***************************************************************************)
(* Path names: chaseros_path_normalize, vfs_resolve_path and               *)
(* path_split_parent, as operators on sequences of characters, and what    *)
(* they should compute.  Error stands for a return value of -1.            *)
(***************************************************************************)
EXTENDS Integers, Sequences, SequencesExt

CONSTANTS
    NameMax,        \* 127: characters that a component can have
    SegMax,         \* CHASEROS_SEG_MAX
    PathSize,       \* CHASEROS_PATH_MAX: bytes of a result, with its end
    TmpSize         \* 512: bytes of the buffer that joins two paths

ASSUME PathsAssumption ==
    NameMax \in Nat \ {0} /\ SegMax \in Nat \ {0} /\ PathSize \in Nat /\ TmpSize \in Nat

Error == <<"error">>
Slash == <<"/">>
IsAbsolute(p) == p # <<>> /\ p[1] = "/"

\* The path with the given components.
Joined(segs) ==
    IF segs = <<>> THEN Slash ELSE FoldLeft(LAMBDA p, s : p \o Slash \o s, <<>>, segs)

(***************************************************************************)
(* The code                                                                *)
(***************************************************************************)
\* A component that is complete: empty and . are dropped, .. takes one back.
Push_KeepDots(segs, name) == IF name = <<>> THEN segs ELSE Append(segs, name)
Push(segs, name) ==
    CASE name \in {<<>>, <<".">>} -> segs
      [] name = <<".", ".">> -> IF segs = <<>> THEN segs ELSE Front(segs)
      [] OTHER -> Append(segs, name)

\* One character.  A component also ends after NameMax characters, and the
\* scan ends after SegMax components.
Scan(st, c) ==
    IF Len(st.segs) = SegMax THEN st
    ELSE IF c = "/" THEN [segs |-> Push(st.segs, st.name), name |-> <<>>]
    ELSE IF Len(st.name) < NameMax THEN [st EXCEPT !.name = Append(@, c)]
    ELSE LET segs == Push(st.segs, st.name)
         IN  [segs |-> segs, name |-> IF Len(segs) = SegMax THEN <<>> ELSE <<c>>]

chaseros_path_normalize(p) ==
    IF ~IsAbsolute(p) THEN Error
    ELSE LET st == FoldLeft(Scan, [segs |-> <<>>, name |-> <<>>], Tail(p))
             out == Joined(IF Len(st.segs) = SegMax THEN st.segs ELSE Push(st.segs, st.name))
         IN  IF Len(out) >= PathSize /\ out # Slash THEN Error ELSE out

\* A path of the user, from a current directory.
vfs_resolve_path_Concat(cwd, rel) == chaseros_path_normalize(cwd \o rel)
vfs_resolve_path(cwd, rel) ==
    IF IsAbsolute(rel) THEN chaseros_path_normalize(rel)
    ELSE IF Len(cwd) + 1 + Len(rel) + 2 > TmpSize THEN Error
    ELSE chaseros_path_normalize(IF cwd = Slash THEN Slash \o rel ELSE cwd \o Slash \o rel)

\* The directory and the last name of a normal path.
path_split_parent(p) ==
    LET i == CHOOSE k \in 1 .. Len(p) : p[k] = "/" /\ \A j \in (k + 1) .. Len(p) : p[j] # "/"
    IN  [parent |-> IF i = 1 THEN Slash ELSE SubSeq(p, 1, i - 1),
         base |-> SubSeq(p, i + 1, Len(p))]

(***************************************************************************)
(* What paths mean                                                         *)
(***************************************************************************)
\* The pieces between slashes, the empty ones included.
Components(p) ==
    FoldLeft(LAMBDA cs, c : IF c = "/" THEN Append(cs, <<>>)
                            ELSE [cs EXCEPT ![Len(cs)] = Append(@, c)], <<<<>>>>, p)

IsName(c) == c \notin {<<>>, <<".">>, <<".", ".">>}

\* Read from the right: a name counts unless a .. to its right takes it back.
Meaning(p) ==
    LET cs == Components(p)
        step(c, st) == CASE c = <<".", ".">> -> [st EXCEPT !.up = @ + 1]
                         [] ~IsName(c) -> st
                         [] st.up > 0 -> [st EXCEPT !.up = @ - 1]
                         [] OTHER -> [st EXCEPT !.segs = <<c>> \o @]
    IN  FoldRight(step, cs, [up |-> 0, segs |-> <<>>]).segs

\* Within the limits: names that fit, fewer of them than the table holds.
Ordinary(p) ==
    /\ \A k \in 1 .. Len(Components(p)) : Len(Components(p)[k]) <= NameMax
    /\ Len(SelectSeq(Components(p), IsName)) < SegMax

\* A path in the form normalize produces.
IsNormal(p) ==
    \/ p = Slash
    \/ /\ IsAbsolute(p) /\ Len(p) < PathSize
       /\ LET cs == Tail(Components(p))
          IN  Len(cs) <= SegMax /\ \A k \in 1 .. Len(cs) : IsName(cs[k]) /\ Len(cs[k]) <= NameMax
=============================================================================
