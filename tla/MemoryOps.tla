----------------------------- MODULE MemoryOps -----------------------------
(***************************************************************************)
(* A record of memory blocks, and the queries of the E-ACSL runtime by     *)
(* their meaning.  A record b maps the base address of each block to its   *)
(* size and flags; w is the set of addresses the program has initialised.  *)
(***************************************************************************)
EXTENDS Contracts, TLC

Cells(p, n) == p .. (p + n - 1)

(* Address a belongs to the block of n bytes at p; an empty block still has *)
(* its base.                                                                *)
Holds(p, n, a) == a = p \/ (p <= a /\ a < p + n)

Block(n, freeable) == [size |-> n, freeable |-> freeable, readonly |-> FALSE]

(* There is room for a block of n bytes at p among those of b. *)
Clear(b, p, n) ==
  \A q \in DOMAIN b : ~ Holds(p, n, q) /\ ~ Holds(q, b[q].size, p)

-----------------------------------------------------------------------------
(* The queries, by their meaning.  Owner(b, a) is the base of the block     *)
(* that holds address a, 0 when there is none; o is Owner(b, a).            *)
Owner(b, a) ==
  IF \E p \in DOMAIN b : Holds(p, b[p].size, a)
  THEN CHOOSE p \in DOMAIN b : Holds(p, b[p].size, a)
  ELSE 0

Freeable(b, a) == a \in DOMAIN b /\ b[a].freeable

Initialized(w, a, n) == Cells(a, n) \subseteq w

(* The contracts e_acsl.h gives for the calls that code generated by E-ACSL *)
(* makes, for an area of n > 0 bytes at a.  meets: the area and the block   *)
(* that holds base are not separated.                                       *)
Meets(b, a, n, base) ==
  \E p \in DOMAIN b : Holds(p, b[p].size, base)
                      /\ Cells(a, n) \cap Cells(p, b[p].size) # {}

ValidBehaviors(isvalid, meets) ==
  [valid         |-> Behavior(isvalid /\ meets, {TRUE}),
   invalid_ptr   |-> Behavior(~ isvalid, {FALSE}),
   separated_ptr |-> Behavior(~ meets, {FALSE})]

valid_contract(b, o, a, n, base) ==
  Partition(TRUE, BOOLEAN,
            ValidBehaviors(o # 0 /\ a + n <= o + b[o].size /\ ~ b[o].readonly,
                           Meets(b, a, n, base)))

valid_read_contract(b, o, a, n, base) ==
  Partition(TRUE, BOOLEAN,
            ValidBehaviors(o # 0 /\ a + n <= o + b[o].size, Meets(b, a, n, base)))

base_addr_contract(o) == Plain(o # 0, {o})
block_length_contract(b, o) == Plain(o # 0, {b[o].size})
offset_contract(o, a) == Plain(o # 0, {a - o})

initialized_contract(w, a, n) ==
  Partition(TRUE, BOOLEAN,
            [initialized   |-> Behavior(Initialized(w, a, n), {TRUE}),
             uninitialized |-> Behavior(~ Initialized(w, a, n), {FALSE})])

Without(b, p) == [q \in DOMAIN b \ {p} |-> b[q]]
Including(b, p, r) == [q \in DOMAIN b \cup {p} |-> IF q = p THEN r ELSE b[q]]

HeapBlocks(b) == {p \in DOMAIN b : b[p].freeable}
=============================================================================
