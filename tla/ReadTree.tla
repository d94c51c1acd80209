------------------------------- MODULE ReadTree -------------------------------
(***************************************************************************)
(* A whole directory tree read from an image: lib/sqfs/read_tree.c.  The   *)
(* result is a node with the list of its children, as the code links them. *)
(***************************************************************************)
EXTENDS Directories

(* SQFS_TREE_*: kinds of entries that are left out, and "no_recurse",      *)
(* "no_empty", "store_parents".                                            *)
should_skip(type, flags) ==
  \/ type \in Devices /\ "no_devices" \in flags
  \/ type = "slink" /\ "no_slinks" \in flags
  \/ type = "sock" /\ "no_sockets" \in flags
  \/ type = "fifo" /\ "no_fifo" \in flags

create_node(inode, name) == [name |-> name, inode |-> inode, uid |-> 0, gid |-> 0, children |-> <<>>]

(* path: the inode numbers from the root of the walk to the directory. *)
would_be_own_parent(path, inode) == \E i \in DOMAIN path : path[i] = inode.inode_number

RECURSIVE ReadListing(_, _, _, _, _), fill_dir(_, _, _, _, _), FillChildren(_, _, _, _, _, _)

(* The first loop of fill_dir: the entries of the open directory. *)
ReadListing(s, file, path, flags, fault) ==
  With(dir_reader_read(s.rd, file, fault), LAMBDA e :
    With(dir_reader_get_inode(e.rd, file, fault), LAMBDA i :
      LET n == create_node(i.inode, e.ent.name)
      IN  IF e.ret = "end" THEN [s EXCEPT !.rd = e.rd]
          ELSE IF e.ret # "ok" THEN [s EXCEPT !.rd = e.rd, !.ret = "error"]
          ELSE IF should_skip(e.ent.type, flags)
               THEN ReadListing([s EXCEPT !.rd = e.rd], file, path, flags, fault)
          ELSE IF i.ret # "ok" THEN [s EXCEPT !.rd = i.rd, !.ret = "error"]
          ELSE IF would_be_own_parent(path, i.inode) THEN [s EXCEPT !.rd = i.rd, !.ret = "loop"]
          ELSE ReadListing([s EXCEPT !.rd = i.rd, !.node.children = Append(@, n)],
                           file, path, flags, fault)))

(* The second loop: every directory is opened and filled, and taken out of  *)
(* the list again if it stays empty and those are not wanted.               *)
FillChildren(s, k, file, path, flags, fault) ==
  LET c == s.node.children[k]
      o == open_dir(s.rd, file, c.inode, fault)
      f == IF "no_recurse" \in flags THEN [rd |-> s.rd, ret |-> "ok", node |-> c]
           ELSE IF o.ret # "ok" THEN [rd |-> o.rd, ret |-> "error", node |-> c]
           ELSE fill_dir([rd |-> o.rd, ret |-> "ok", node |-> c], file, path, flags, fault)
      drop == f.node.children = <<>> /\ "no_empty" \in flags
      done == [s EXCEPT !.rd = f.rd, !.ret = f.ret,
                        !.node.children = IF drop /\ f.ret = "ok" THEN RemoveAt(@, k)
                                          ELSE [@ EXCEPT ![k] = f.node]]
  IN  IF s.ret # "ok" \/ k > Len(s.node.children) THEN s
      ELSE IF c.inode.kind # "dir" THEN FillChildren(s, k + 1, file, path, flags, fault)
      ELSE FillChildren(done, IF drop THEN k ELSE k + 1, file, path, flags, fault)

fill_dir(s, file, path, flags, fault) ==
  LET deeper == Append(path, s.node.inode.inode_number)
      l == ReadListing(s, file, deeper, flags, fault)
  IN  FillChildren(l, 1, file, deeper, flags, fault)

RECURSIVE resolve_ids(_, _)

(* What goes wrong below the root is not reported. *)
resolve_ids(node, ids) ==
  LET kids == [k \in DOMAIN node.children |-> resolve_ids(node.children[k], ids).node]
      u == index_to_id(ids, node.inode.uid_idx)
      g == index_to_id(ids, node.inode.gid_idx)
  IN  IF u.ret # "ok" THEN [ret |-> "error", node |-> [node EXCEPT !.children = kids]]
      ELSE [ret |-> g.ret, node |-> [node EXCEPT !.children = kids, !.uid = u.id, !.gid = g.id]]

RECURSIVE FindEntry(_, _, _, _)

(* A listing is read to the end for a name, whatever its order. *)
FindEntry(rd, name, file, fault) ==
  LET e == dir_reader_read(rd, file, fault)
  IN  IF e.ret = "end" THEN [ret |-> "no_entry", rd |-> e.rd]
      ELSE IF e.ret # "ok" \/ e.ent.name = name THEN [ret |-> e.ret, rd |-> e.rd]
      ELSE FindEntry(e.rd, name, file, fault)

(* The nodes along the path, the root first. *)
PathNodes(rd, path, file, fault) ==
  With(get_root_inode(rd, file, fault), LAMBDA root :
    LET step(r, name) ==
          LET o == open_dir(r.rd, file, Last(r.nodes).inode, fault)
          IN  With(FindEntry(o.rd, name, file, fault), LAMBDA f :
                LET i == dir_reader_get_inode(f.rd, file, fault)
                IN  IF r.ret # "ok" THEN r
                    ELSE IF o.ret # "ok" THEN [r EXCEPT !.ret = o.ret]
                    ELSE IF f.ret # "ok" THEN [r EXCEPT !.ret = f.ret]
                    ELSE [rd |-> i.rd, ret |-> i.ret, nodes |-> Append(r.nodes, create_node(i.inode, name))])
    IN  FoldLeft(step, [rd |-> root.rd, ret |-> root.ret, nodes |-> <<create_node(root.inode, <<>>)>>],
                 path))

(* The parents of the last node are kept if the flag says so. *)
get_full_hierarchy(rd, ids, path, file, flags, fault) ==
  With(PathNodes(rd, path, file, fault), LAMBDA p :
    LET last == Last(p.nodes)
        above == [i \in 1 .. Len(p.nodes) - 1 |-> p.nodes[i].inode.inode_number]
        o == open_dir(p.rd, file, last.inode, fault)
        start == [rd |-> o.rd, ret |-> o.ret, node |-> last]
        keep == "store_parents" \in flags
    IN  With(IF last.inode.kind # "dir" \/ o.ret # "ok" THEN start
             ELSE fill_dir(start, file, IF keep THEN above ELSE <<>>, flags, fault), LAMBDA f :
          LET chain == FoldRight(LAMBDA n, below : [n EXCEPT !.children = <<below>>],
                                 IF keep THEN Front(p.nodes) ELSE <<>>, f.node)
              r == resolve_ids(chain, ids)
          IN  IF p.ret # "ok" THEN [ret |-> p.ret, rd |-> p.rd, node |-> Garbage]
              ELSE IF last.inode.kind = "dir" /\ f.ret # "ok"
                   THEN [ret |-> f.ret, rd |-> f.rd, node |-> Garbage]
              ELSE [ret |-> r.ret, rd |-> IF last.inode.kind = "dir" THEN f.rd ELSE p.rd, node |-> r.node]))
=============================================================================
