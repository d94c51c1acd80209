----------------------------- MODULE HostInput ------------------------------
(***************************************************************************)
(* How gensquashfs reads a directory of the host (--pack-dir): the scan    *)
(* that makes tree nodes of it (lib/fstree/fstree_from_dir.c), the reading *)
(* of extended attributes (bin/gensquashfs/dirscan_xattr.c) and the        *)
(* reading of the files (lib/common/data_writer.c).  Each of them asks the *)
(* host several times about the same thing, first how large it is and then *)
(* for it; another program may change the directory between any two calls. *)
(***************************************************************************)
EXTENDS Integers, Sequences, FiniteSets, SequencesExt

CONSTANTS
    Hosts,      \* what the directory may hold at first
    Changes,    \* what another program may put in the place of an entry
    MaxChanges, \* bound: changes while the program runs
    BufferSize  \* the buffer of write_data_from_file

VARIABLES
    host,       \* [path -> entry]: paths are sequences of names, <<>> the root
    before,     \* all the directory ever was
    one_fs,     \* --one-file-system
    phase,      \* "scan", "attrs", "data", "done" or "failed"
    stack,      \* the directories being scanned
    cur,        \* the call the program is about to make
    todo,       \* the nodes the phase has still to visit
    tree,       \* [path -> node]: the nodes made so far
    changes

vars == <<host, before, one_fs, phase, stack, cur, todo, tree, changes>>

-----------------------------------------------------------------------------
(* The host.  An entry is [kind, dev, target, len, attrs], attrs giving a   *)
(* sequence of bytes for each attribute name; targets are sequences too.    *)

Exists(p) == p \in DOMAIN host

Kind(p) == IF Exists(p) THEN host[p].kind ELSE "none"

Children(p) == {q \in DOMAIN host : q # <<>> /\ Front(q) = p}

\* Another program replaces, changes or removes an entry that has none below.
HostChanges ==
    /\ phase \notin {"done", "failed"}
    /\ changes < MaxChanges
    /\ \E p \in DOMAIN host \ {<<>>} :
          /\ Children(p) = {}
          /\ \/ host' = [q \in DOMAIN host \ {p} |-> host[q]]
             \/ \E e \in Changes : e # host[p] /\ host' = [host EXCEPT ![p] = e]
    /\ before' = before \cup {host'}
    /\ changes' = changes + 1
    /\ UNCHANGED <<one_fs, phase, stack, cur, todo, tree>>

-----------------------------------------------------------------------------
(* The calls in progress: uniform records, "step" is the next call.         *)

Call(step, p) == [step |-> step, path |-> p, room |-> 0, keys |-> {}, key |-> ""]

Idle == Call("none", <<>>)

Fail == phase' = "failed" /\ UNCHANGED <<stack, cur, todo, tree>>

At(ph, step) == phase = ph /\ cur.step = step

Quiet == UNCHANGED <<host, before, one_fs, changes>>

-----------------------------------------------------------------------------
(* The scan. *)

\* readdir: an entry that is gone is no longer returned.
ReadDir ==
    /\ At("scan", "none") /\ stack # <<>> /\ Last(stack).left # {}
    /\ \E p \in Last(stack).left :
          /\ stack' = [stack EXCEPT ![Len(stack)].left = @ \ {p}]
          /\ cur' = IF Exists(p) THEN Call("stat", p) ELSE cur
    /\ UNCHANGED <<phase, todo, tree>> /\ Quiet

\* fstree_mknode, and the directory to be opened next.
MkNode(p, kind, target) ==
    /\ tree' = (p :> [kind |-> kind, target |-> target,
                      attrs |-> <<>>, len |-> 0, size |-> 0]) @@ tree
    /\ cur' = IF kind = "dir" THEN Call("open", p) ELSE Idle
    /\ UNCHANGED <<phase, stack, todo>>

\* fstatat without following links.
Stat ==
    /\ At("scan", "stat")
    /\ LET p == cur.path
       IN  IF ~Exists(p) THEN Fail
           ELSE IF one_fs /\ host[p].dev # host[<<>>].dev
           THEN cur' = Idle /\ UNCHANGED <<phase, stack, todo, tree>>
           ELSE IF Kind(p) = "link"
           THEN /\ cur' = [Call("readlink", p) EXCEPT
                              !.room = Len(host[p].target)]
                /\ UNCHANGED <<phase, stack, todo, tree>>
           ELSE MkNode(p, Kind(p), <<>>)
    /\ Quiet

\* readlinkat into a buffer of the size that fstatat gave: what does not fit
\* is cut off without an error.
ReadLink ==
    /\ At("scan", "readlink")
    /\ LET p == cur.path
       IN  IF Kind(p) # "link" THEN Fail
           ELSE MkNode(p, "link",
                       SubSeq(host[p].target, 1,
                              IF Len(host[p].target) < cur.room
                              THEN Len(host[p].target) ELSE cur.room))
    /\ Quiet

\* openat with O_DIRECTORY, and the scan of what is below.
OpenDir ==
    /\ At("scan", "open")
    /\ IF Kind(cur.path) # "dir" THEN Fail
       ELSE /\ stack' = Append(stack, [dir |-> cur.path,
                                       left |-> Children(cur.path)])
            /\ cur' = Idle
            /\ UNCHANGED <<phase, todo, tree>>
    /\ Quiet

CloseDir ==
    /\ At("scan", "none") /\ stack # <<>> /\ Last(stack).left = {}
    /\ stack' = Front(stack)
    /\ IF Len(stack) > 1 THEN UNCHANGED <<phase, todo>>
       ELSE phase' = "attrs" /\ todo' = DOMAIN tree
    /\ UNCHANGED <<cur, tree>> /\ Quiet

-----------------------------------------------------------------------------
(* The extended attributes of each node: llistxattr for the size of the     *)
(* list, llistxattr for the list, and two lgetxattr for each name.          *)

NextNode(q) == cur' = Idle /\ todo' = todo \ {q}

ListSize ==
    /\ At("attrs", "none") /\ todo # {}
    /\ \E p \in todo :
          IF ~Exists(p) THEN Fail
          ELSE /\ IF DOMAIN host[p].attrs = {} THEN NextNode(p)
                  ELSE /\ cur' = [Call("list", p) EXCEPT
                                     !.room = Cardinality(DOMAIN host[p].attrs)]
                       /\ UNCHANGED todo
               /\ UNCHANGED <<phase, stack, tree>>
    /\ Quiet

List ==
    /\ At("attrs", "list")
    /\ LET p == cur.path
       IN  IF ~Exists(p) \/ (Exists(p) /\
                             Cardinality(DOMAIN host[p].attrs) > cur.room)
           THEN Fail
           ELSE /\ cur' = [Call("keys", p) EXCEPT !.keys = DOMAIN host[p].attrs]
                /\ UNCHANGED <<phase, stack, todo, tree>>
    /\ Quiet

Has(p, key) == Exists(p) /\ key \in DOMAIN host[p].attrs

\* A value of no bytes is passed over.
ValueSize ==
    /\ At("attrs", "keys")
    /\ IF cur.keys = {} THEN NextNode(cur.path) /\ UNCHANGED <<phase, stack, tree>>
       ELSE \E key \in cur.keys :
               IF ~Has(cur.path, key) THEN Fail
               ELSE LET n == Len(host[cur.path].attrs[key])
                    IN  /\ cur' = IF n = 0 THEN [cur EXCEPT !.keys = @ \ {key}]
                                  ELSE [cur EXCEPT !.step = "value",
                                                   !.key = key, !.room = n]
                        /\ UNCHANGED <<phase, stack, todo, tree>>
    /\ Quiet


\* The value as long as the second call says it is.
StoredValue(value, room) == value

\* lgetxattr refuses a value that has outgrown its buffer.
GetValue ==
    /\ At("attrs", "value")
    /\ LET p == cur.path
       IN  IF ~Has(p, cur.key) THEN Fail
           ELSE IF Len(host[p].attrs[cur.key]) > cur.room THEN Fail
           ELSE /\ tree' = [tree EXCEPT ![p].attrs =
                               (cur.key :> StoredValue(host[p].attrs[cur.key],
                                                       cur.room)) @@ @]
                /\ cur' = [cur EXCEPT !.step = "keys", !.keys = @ \ {cur.key}]
                /\ UNCHANGED <<phase, stack, todo>>
    /\ Quiet

\* xattrs_from_dir is over: the files are next.
AttrsDone ==
    /\ At("attrs", "none") /\ todo = {}
    /\ phase' = "data"
    /\ todo' = {p \in DOMAIN tree : tree[p].kind = "file"}
    /\ UNCHANGED <<stack, cur, tree>> /\ Quiet

-----------------------------------------------------------------------------
(* The files: the size is asked for once, when the file is opened.          *)

OpenFile ==
    /\ At("data", "none") /\ todo # {}
    /\ \E p \in todo :
          IF Kind(p) # "file" THEN Fail
          ELSE /\ tree' = [tree EXCEPT ![p].size = host[p].len]
               /\ cur' = Call("read", p)
               /\ UNCHANGED <<phase, stack, todo>>
    /\ Quiet

\* A step that always fills the buffer.
WholeBuffer(filesz, offset) == BufferSize

ReadStep(filesz, offset) ==
    IF filesz - offset > BufferSize THEN BufferSize ELSE filesz - offset

\* read_at fails where the file has become too short; cur.room is the offset.
\* An open file stays readable when its name is gone.
WriteData ==
    /\ At("data", "read")
    /\ LET p == cur.path
           diff == ReadStep(tree[p].size, cur.room)
       IN  IF cur.room >= tree[p].size
           THEN NextNode(p) /\ UNCHANGED <<phase, stack, tree>>
           ELSE IF Kind(p) = "file" /\ host[p].len < cur.room + diff THEN Fail
           ELSE /\ tree' = [tree EXCEPT ![p].len = @ + diff]
                /\ cur' = [cur EXCEPT !.room = @ + diff]
                /\ UNCHANGED <<phase, stack, todo>>
    /\ Quiet

DataDone ==
    /\ At("data", "none") /\ todo = {}
    /\ phase' = "done"
    /\ UNCHANGED <<stack, cur, todo, tree>> /\ Quiet

-----------------------------------------------------------------------------

Init == /\ host \in Hosts
        /\ before = {host}
        /\ one_fs \in BOOLEAN
        /\ phase = "scan"
        /\ stack = <<[dir |-> <<>>, left |-> Children(<<>>)]>>
        /\ cur = Idle
        /\ todo = {}
        /\ tree = <<>> :> [kind |-> "dir", target |-> <<>>, attrs |-> <<>>,
                           len |-> 0, size |-> 0]
        /\ changes = 0

Next == \/ ReadDir \/ Stat \/ ReadLink \/ OpenDir \/ CloseDir
        \/ ListSize \/ List \/ ValueSize \/ GetValue \/ AttrsDone
        \/ OpenFile \/ WriteData \/ DataDone
        \/ HostChanges

Spec == Init /\ [][Next]_vars

-----------------------------------------------------------------------------

\* What should be packed: everything, or what lies on the root's file system
\* and below no directory of another one.
Wanted ==
    {p \in DOMAIN host :
        one_fs => \A i \in 0 .. Len(p) :
                     host[SubSeq(p, 1, i)].dev = host[<<>>].dev}

\* A directory nobody changes is packed as it is: no call of the scan, of the
\* attributes or of the files fails, every entry has its node, every link its
\* target, every file its length, and every attribute that has a value its
\* value.
QuietIsExact ==
    changes = 0 =>
        /\ phase # "failed"
        /\ phase = "done" =>
              /\ DOMAIN tree = Wanted
              /\ \A p \in DOMAIN tree :
                    /\ tree[p].kind = host[p].kind
                    /\ Kind(p) = "link" => tree[p].target = host[p].target
                    /\ Kind(p) = "file" => tree[p].len = host[p].len
                    /\ \A k \in DOMAIN host[p].attrs :
                          host[p].attrs[k] # <<>> =>
                              /\ k \in DOMAIN tree[p].attrs
                              /\ tree[p].attrs[k] = host[p].attrs[k]

\* Whatever happens to the directory meanwhile, what is packed was there: each
\* attribute has a value that it had at some time, whole, and each file as
\* many bytes as it had when it was opened.  (A link's target may be cut off.)
PackedWasThere ==
    phase = "done" =>
        \A p \in DOMAIN tree :
            /\ tree[p].len = tree[p].size
            /\ \A k \in DOMAIN tree[p].attrs :
                  \E h \in before : /\ p \in DOMAIN h
                                    /\ k \in DOMAIN h[p].attrs
                                    /\ h[p].attrs[k] = tree[p].attrs[k]
            /\ tree[p].kind = "link" =>
                  \E h \in before : /\ p \in DOMAIN h
                                    /\ IsPrefix(tree[p].target, h[p].target)
=============================================================================
