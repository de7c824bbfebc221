--------------------------- MODULE BindingProofs ---------------------------
(***************************************************************************)
(* Lemmas about sets of bindings: the rules checked when one row is added  *)
(* to a well-formed history are enough to keep the history well-formed.    *)
(***************************************************************************)
EXTENDS Binding, TLAPS

\* The empty store is well-formed.
LEMMA EmptyHistory == GoodHistory({})
BY DEF GoodHistory, Keyed, Linear, Grounded, Acyclic, Rooted, OneHeadPerChain, Current

\* What the unique indexes and validatePredecessor establish about a new row.
MayJoin(row, R) ==
  /\ \A x \in R : x.id # row.id /\ ~ Clash(x, row)
  /\ row.supersedes # None =>
       \E p \in R : p.id = row.supersedes /\ Continues(row, p)

\* What a save of request r makes of rows R and locations L.  StorageSave commits
\* it in one step; StorageRead and CurrentViews take it for one.
Saved(r, R, L, newR, newL) ==
  /\ RowOf(r) \in R \/ MayJoin(RowOf(r), R)
  /\ newR = R \cup {RowOf(r)}
  /\ newL = L \cup LocationsOf(r)

\* A row whose identifier is new is named as predecessor by no row of a
\* grounded history.
LEMMA NotYetSuperseded ==
  ASSUME NEW R, NEW n, n.id # None, Grounded(R), \A x \in R : x.id # n.id
  PROVE  \A x \in R : x.supersedes # n.id
BY DEF Grounded

LEMMA JoinKeyed ==
  ASSUME NEW R, NEW n, Keyed(R), MayJoin(n, R)
  PROVE  Keyed(R \cup {n})
BY DEF Keyed, MayJoin

LEMMA JoinLinear ==
  ASSUME NEW R, NEW n, Linear(R), MayJoin(n, R)
  PROVE  Linear(R \cup {n})
BY DEF Linear, MayJoin, Clash, SuccessorClash

LEMMA JoinGrounded ==
  ASSUME NEW R, NEW n, Grounded(R), MayJoin(n, R)
  PROVE  Grounded(R \cup {n})
BY DEF Grounded, MayJoin

LEMMA JoinAcyclic ==
  ASSUME NEW R, NEW n, n.id # None, Grounded(R), Acyclic(R), MayJoin(n, R)
  PROVE  Acyclic(R \cup {n})
<1> SUFFICES ASSUME NEW S \in SUBSET (R \cup {n}), S # {}
             PROVE  \E x \in S : \A y \in S : x.supersedes # y.id
  BY DEF Acyclic
<1>1. \A x \in R : x.supersedes # n.id
  BY NotYetSuperseded DEF MayJoin
<1>2. CASE S \ {n} = {}
  <2>1. S = {n}
    BY <1>2
  <2>2. n.supersedes # n.id
    BY DEF MayJoin
  <2> QED
    BY <2>1, <2>2
<1>3. CASE S \ {n} # {}
  <2>1. S \ {n} \in SUBSET R
    OBVIOUS
  <2>2. PICK x \in S \ {n} : \A y \in S \ {n} : x.supersedes # y.id
    BY <1>3, <2>1 DEF Acyclic
  <2> QED
    BY <1>1, <2>1, <2>2
<1> QED
  BY <1>2, <1>3

LEMMA JoinRooted ==
  ASSUME NEW R, NEW n, Rooted(R), MayJoin(n, R)
  PROVE  Rooted(R \cup {n})
<1>1. ASSUME NEW x \in R \cup {n}, Cumulative(x)
      PROVE  \E r \in R \cup {n} : Root(r) /\ ChainOf(r) = ChainOf(x)
  <2>1. CASE x \in R
    BY <1>1, <2>1 DEF Rooted
  <2>2. CASE x = n /\ n.supersedes = None
    BY <1>1, <2>2 DEF Root
  <2>3. CASE x = n /\ n.supersedes # None
    <3>1. PICK p \in R : Continues(n, p)
      BY <2>3 DEF MayJoin
    <3>2. Cumulative(p) /\ ChainOf(p) = ChainOf(n)
      BY <1>1, <2>3, <3>1 DEF Continues, Cumulative, ChainOf
    <3> QED
      BY <2>3, <3>2 DEF Rooted
  <2> QED
    BY <2>1, <2>2, <2>3
<1>2. \A x, y \in R \cup {n} : RootClash(x, y) => x = y
  BY DEF Rooted, MayJoin, Clash, RootClash
<1> QED
  BY <1>1, <1>2 DEF Rooted

\* A new cumulative report that is a root finds its chain empty; one that is
\* a successor takes the place of the only head.
LEMMA JoinOneHead ==
  ASSUME NEW R, NEW n, n.id # None, Grounded(R), Rooted(R), Linear(R),
         OneHeadPerChain(R), MayJoin(n, R)
  PROVE  OneHeadPerChain(R \cup {n})
<1> DEFINE T == R \cup {n}
<1>1. \A x \in R : x.supersedes # n.id
  BY NotYetSuperseded DEF MayJoin
<1>2. ASSUME NEW x \in R, x \in Current(T)
      PROVE  x \in Current(R)
  BY <1>2 DEF Current
<1>3. ASSUME NEW x \in R, x \in Current(T), Cumulative(x), Cumulative(n),
             ChainOf(x) = ChainOf(n)
      PROVE  FALSE
  <2>1. CASE n.supersedes = None
    <3>1. PICK r \in R : Root(r) /\ ChainOf(r) = ChainOf(x)
      BY <1>3 DEF Rooted
    <3>2. RootClash(r, n)
      BY <1>3, <2>1, <3>1 DEF RootClash, Root
    <3> QED
      BY <3>2 DEF MayJoin, Clash
  <2>2. CASE n.supersedes # None
    <3>1. PICK p \in R : p.id = n.supersedes /\ Continues(n, p)
      BY <2>2 DEF MayJoin
    <3>2. Cumulative(p) /\ ChainOf(p) = ChainOf(n)
      BY <1>3, <3>1 DEF Continues, Cumulative, ChainOf
    <3>3. p \in Current(R)
      <4>1. \A y \in R : y.supersedes # p.id
        BY <2>2, <3>1 DEF MayJoin, Clash, SuccessorClash
      <4> QED
        BY <4>1 DEF Current
    <3>4. x = p
      BY <1>2, <1>3, <3>2, <3>3 DEF OneHeadPerChain
    <3>5. n.supersedes = x.id /\ n.id.context.scope = x.id.context.scope
      BY <3>1, <3>4 DEF Continues
    <3> QED
      BY <1>3, <3>5 DEF Current
  <2> QED
    BY <2>1, <2>2
<1> SUFFICES ASSUME NEW x \in Current(T), NEW y \in Current(T),
                    Cumulative(x), Cumulative(y), ChainOf(x) = ChainOf(y)
             PROVE  x = y
  BY DEF OneHeadPerChain
<1>4. x \in T /\ y \in T
  BY DEF Current
<1>5. CASE x \in R /\ y \in R
  BY <1>2, <1>5 DEF OneHeadPerChain
<1>6. CASE x \in R /\ y = n
  BY <1>3, <1>6
<1>7. CASE x = n /\ y \in R
  BY <1>3, <1>7
<1> QED
  BY <1>4, <1>5, <1>6, <1>7

\* One admissible row keeps a history well-formed.
LEMMA JoinGoodHistory ==
  ASSUME NEW R, NEW n, n.id # None, GoodHistory(R), MayJoin(n, R)
  PROVE  GoodHistory(R \cup {n})
BY JoinKeyed, JoinLinear, JoinGrounded, JoinAcyclic, JoinRooted, JoinOneHead
   DEF GoodHistory
=============================================================================
