----------------------------- MODULE MergePatch -----------------------------
(***************************************************************************)
(* The JSON merge patches (RFC 7396) that accelrd sends for the labels and *)
(* annotations of a node.  Both are one function from keys to values here: *)
(* the labeler treats the two sections alike, and no key is in both.       *)
(***************************************************************************)
CONSTANTS
  ManagedKeys,  \* keys under one of MANAGED_PREFIXES
  Null          \* JSON null: the API server removes the key

(* What the API server makes of a patch.                                   *)
Kept(doc, patch) ==
  {k \in DOMAIN doc \cup DOMAIN patch : k \in DOMAIN patch => patch[k] # Null}
Merge(doc, patch) ==
  [k \in Kept(doc, patch) |-> IF k \in DOMAIN patch THEN patch[k] ELSE doc[k]]

(* The patch that the labeler builds from the node it has read: managed    *)
(* keys no longer wanted are nulled, the wanted ones overlaid.             *)
\* Mutants: nothing is nulled; every key no longer wanted is nulled.
MergedSectionOverlayOnly(current, desired) == desired
MergedSectionAllKeys(current, desired) ==
  [k \in DOMAIN current \cup DOMAIN desired |->
     IF k \in DOMAIN desired THEN desired[k] ELSE Null]
MergedSection(current, desired) ==
  [k \in (DOMAIN current \cap ManagedKeys) \cup DOMAIN desired |->
     IF k \in DOMAIN desired THEN desired[k] ELSE Null]

(* The managed keys of doc are those of desired, with its values.          *)
Exact(doc, desired) ==
  /\ DOMAIN doc \cap ManagedKeys = DOMAIN desired
  /\ \A k \in DOMAIN desired : doc[k] = desired[k]

(* Both have the same keys of other owners, with the same values.          *)
SameForeign(doc, new) ==
  /\ DOMAIN doc \ ManagedKeys = DOMAIN new \ ManagedKeys
  /\ \A k \in DOMAIN doc \ ManagedKeys : new[k] = doc[k]
=============================================================================
