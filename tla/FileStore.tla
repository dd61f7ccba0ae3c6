----------------------------- MODULE FileStore -----------------------------
(***************************************************************************)
(* What a volume promises: a tree of directories and files.  One operation *)
(* at a time is asked for; it then takes effect as a whole, or is refused  *)
(* without effect, or fails after it has begun to write.  After a failure  *)
(* the volume promises nothing until it is formatted again.                *)
(***************************************************************************)
EXTENDS Naturals, Sequences

CONSTANTS Names, Contents, LostFound, Paths

VARIABLES
    formatted,     \* there is a file system whose promise stands
    tree,          \* path -> [kind, data], a path being a sequence of names
    req            \* the operation under way

storeVars == <<formatted, tree, req>>

Dir == [kind |-> "dir", data |-> <<>>]
File(c) == [kind |-> "file", data |-> c]
FreshTree == [p \in {<<>>, <<LostFound>>} |-> Dir]

Parent(p) == SubSeq(p, 1, Len(p) - 1)
IsDir(p) == p \in DOMAIN tree /\ tree[p].kind = "dir"
Below(q, p) == Len(q) > Len(p) /\ SubSeq(q, 1, Len(p)) = p

\* The tree with node at p, and nothing below p.
With(p, node) ==
    [q \in {r \in DOMAIN tree : ~Below(r, p)} \cup {p} |->
        IF q = p THEN node ELSE tree[q]]

Idle == [op |-> "none", path |-> <<>>, data |-> <<>>]
Requests ==
    [op : {"format"}, path : {<<>>}, data : {<<>>}]
      \cup [op : {"file"}, path : Paths, data : Contents]
      \cup [op : {"dir"}, path : Paths, data : {<<>>}]

StoreInit == formatted = FALSE /\ tree = <<>> /\ req = Idle

Ask ==
    /\ req = Idle /\ req' \in Requests
    /\ req'.op = "format" \/ (formatted /\ req'.path # <<>> /\ IsDir(Parent(req'.path)))
    /\ req'.op = "dir" => req'.path \notin DOMAIN tree
    /\ UNCHANGED <<formatted, tree>>

TakeEffect ==
    /\ req # Idle /\ req' = Idle
    /\ formatted' = TRUE
    /\ tree' = CASE req.op = "format" -> FreshTree
                 [] req.op = "file" -> With(req.path, File(req.data))
                 [] req.op = "dir" -> With(req.path, Dir)

\* Only mkdir can find out late that there is no room for the name.
Refuse == req.op = "dir" /\ req' = Idle /\ UNCHANGED <<formatted, tree>>

Fail == req # Idle /\ req' = Idle /\ formatted' = FALSE /\ tree' = <<>>

StoreNext == Ask \/ TakeEffect \/ Refuse \/ Fail
StoreSpec == StoreInit /\ [][StoreNext]_storeVars
=============================================================================
