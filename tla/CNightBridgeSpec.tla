-------------------------- MODULE CNightBridgeSpec --------------------------
(***************************************************************************)
(* What the cNIGHT bridge promises, without blocks, queries or capacities: *)
(* Midnight observes the transactions of Cardano in their order, each of   *)
(* them once and as a whole.  Its registrations are the live registrations *)
(* of Cardano up to the observed position, and a cNIGHT UTXO has a dust    *)
(* owner if its holder had exactly one registration when it was created.   *)
(***************************************************************************)
EXTENDS CardanoChain

CONSTANTS ValidKeys, GenesisContract, GenesisPosition

VARIABLES
    chain,              \* the stable part of the Cardano chain
    position,           \* everything before it has been observed
    live,               \* ids of the UTXOs of live registrations
    owners              \* cNIGHT UTXO -> dust key, or NoKey

specVars == <<chain, position, live, owners>>

IsRegistration(u) ==
    LET o == OutputOf(u)
    IN  o.contract = GenesisContract /\ o.auth /\ o.datum = "good"

(* The registrations that are live at position p: made before it and not   *)
(* consumed before it.                                                     *)
Before(ch, p) == {TxAt(ch, q) : q \in Between(ch, Position(0, 0), p)}
LiveAt(ch, p) ==
    {u \in UNION {Created(t) : t \in Before(ch, p)} : IsRegistration(u)}
      \ UNION {Inputs[t] : t \in Before(ch, p)}

(* The registrations of u's holder that count for u: those live before the *)
(* transaction that creates u, at place q, and those that it makes itself  *)
(* up to that output.  What the transaction consumes is still among them.  *)
Counting(ch, q, u) ==
    {r \in LiveAt(ch, q) \cup {Id(u[1], j) : j \in 0 .. u[2]} :
        IsRegistration(r) /\ OutputOf(r).owner = OutputOf(u).owner}

OwnerOf(ch, q, u) ==
    LET o == OutputOf(u)
        regs == Counting(ch, q, u)
        keys == {OutputOf(r).key : r \in regs}
    IN  IF o.night /\ o.holder = "some" /\ Cardinality(regs) = 1 /\ keys \subseteq ValidKeys
        THEN CHOOSE k \in keys : TRUE
        ELSE NoKey

OwnersAt(ch, p) ==
    LET spent == UNION {Inputs[t] : t \in Before(ch, p)}
    IN  [u \in Utxos |->
            IF u[1] \in Before(ch, p) /\ u \notin spent
            THEN OwnerOf(ch, CHOOSE q \in Places(ch) : TxAt(ch, q) = u[1], u)
            ELSE NoKey]
-----------------------------------------------------------------------------
SpecInit ==
    /\ chain = <<>>
    /\ position = GenesisPosition
    /\ live = {}
    /\ owners = [u \in Utxos |-> NoKey]

SpecForge(block) ==
    /\ Len(chain) < MaxBlocks
    /\ Extends(chain, block)
    /\ chain' = Append(chain, block)
    /\ UNCHANGED <<position, live, owners>>

(* All transactions up to some later position are observed at once. *)
SpecObserve(p) ==
    /\ PosLess(position, p)
    /\ position' = p
    /\ live' = LiveAt(chain, p)
    /\ owners' = OwnersAt(chain, p)
    /\ UNCHANGED chain

(* The positions that may be next. *)
Reachable(ch) ==
    {Increment(p) : p \in Places(ch)} \cup {Increment(Position(b, Len(ch[b]))) : b \in 1 .. Len(ch)}

SpecNext ==
    \/ \E block \in Blocks : SpecForge(block)
    \/ \E p \in Reachable(chain) : SpecObserve(p)

BridgeSpec == SpecInit /\ [][SpecNext]_specVars
=============================================================================
