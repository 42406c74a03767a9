------------------------------ MODULE NodeView ------------------------------
(***************************************************************************)
(* What the admin console reads from a Node (src/admin/k8s.rs): from_node  *)
(* and resolve_verdict.  A Node is its labels and annotations together, in *)
(* the keys of Machine and NodeAnnotations.                                *)
(***************************************************************************)
EXTENDS NodeAnnotations, Sequences, Naturals

(* parse_count_labels: the keys with this prefix and this suffix.          *)
ParseCounts(node, prefix) ==
  [name \in {k[2] : k \in {l \in DOMAIN node : Len(l) = 3 /\ l[1] = prefix /\ l[3] = "count"}} |->
     node[<<prefix, name, "count">>]]

(* The rollup of the daemon's checks, if its label is there.               *)
IsChecked(node) == <<"inference">> \in DOMAIN node
ReadPreflight(node) ==
  [verdict |-> CASE node[<<"inference">>] = "true"  -> "ok"
                 [] node[<<"inference">>] = "false" -> "fail"
                 [] OTHER                           -> node[<<"inference">>],
   reason  |-> Value(node, <<"failed">>),
   bw      |-> Null,
   source  |-> "preflight"]

(* A probe of two nodes before a loopback, and both before the checks.     *)
ResolveVerdict(node) ==
  LET source == Source(node, IsChecked(node))
  IN CASE source = Null        -> Null
       [] source = "preflight" -> ReadPreflight(node)
       [] OTHER                -> [verdict |-> Read(node, source).verdict,
                                   reason  |-> Read(node, source).reason,
                                   bw      |-> Read(node, source).bw,
                                   source  |-> source]

FromNode(node) ==
  [rack    |-> Value(node, <<"rack">>),
   block   |-> Value(node, <<"block">>),
   total   |-> Value(node, <<"total-count">>),
   domains |-> IF <<"fabric-domains-count">> \in DOMAIN node
                 THEN node[<<"fabric-domains-count">>] ELSE 0,
   vendors |-> ParseCounts(node, "vendor"),
   models  |-> ParseCounts(node, "model"),
   rdma    |-> Value(node, <<"rdma">>) = "present",
   probe   |-> ResolveVerdict(node)]
=============================================================================
