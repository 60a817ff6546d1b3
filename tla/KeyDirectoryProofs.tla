------------------------- MODULE KeyDirectoryProofs -------------------------
(* Theorems about KeyDirectory, for any keys with any windows, any number of *)
(* verifiers and any floor under max-age.                                    *)
EXTENDS KeyDirectory, WellFoundedInduction, TLAPS

\* A document as a verifier holds it.
Document == [keys : SUBSET Candidates, rendered : Nat, max_age : Nat]

\* Every non-empty set of naturals has a least element: < is well-founded.
LEMMA LeastNatural ==
    ASSUME NEW T, T \subseteq Nat, T # {}
    PROVE  \E x \in T : \A y \in T : x <= y
<1> DEFINE R == OpToRel(<, Nat)
<1>1. R = {ss \in Nat \X Nat : ss[1] < ss[2]}
  BY DEF OpToRel
<1>2. IsWellFoundedOn(R, Nat)
  BY NatLessThanWellFounded
<1> HIDE DEF R
<1>3. PICK x \in T : \A y \in T : ~ (<<y, x>> \in R)
  BY <1>2, WFMin
<1>4. ASSUME NEW y \in T, ~(x <= y) PROVE FALSE
  <2>1. y < x /\ x \in Nat /\ y \in Nat
    BY <1>4
  <2>2. <<y, x>> \in Nat \X Nat /\ <<y, x>>[1] = y /\ <<y, x>>[2] = x
    BY <2>1
  <2>3. <<y, x>> \in R
    BY <1>1, <2>1, <2>2
  <2> QED
    BY <1>3, <2>3
<1> QED
  BY <1>3, <1>4

\* Least and Greatest choose what their names say.
LEMMA LeastChosen ==
    ASSUME NEW T, T \subseteq Nat, T # {}
    PROVE  Least(T) \in T /\ \A y \in T : Least(T) <= y
BY LeastNatural DEF Least

\* See LeastChosen; cache_seconds takes the greater of two.
LEMMA GreaterOfTwo ==
    ASSUME NEW m \in Nat, NEW n \in Nat
    PROVE  /\ Greatest({m, n}) \in {m, n}
           /\ Greatest({m, n}) >= m /\ Greatest({m, n}) >= n
<1>1. \E x \in {m, n} : \A y \in {m, n} : x >= y
  OBVIOUS
<1> QED
  BY <1>1 DEF Greatest

\* cache_seconds is at least the floor, and above it no key of the document
\* expires within it.
LEMMA CacheSeconds ==
    ASSUME NEW keys, NEW now \in Nat, \A k \in keys : k.exp \in Nat /\ now < k.exp
    PROVE  /\ cache_seconds(keys, now) \in Nat
           /\ cache_seconds(keys, now) > MinCache
                => keys # {} /\ \A k \in keys : now + cache_seconds(keys, now) <= k.exp
<1>0. MinCache \in Nat
  BY DirectoryAssumptions
<1>1. CASE keys = {}
  BY <1>0, <1>1 DEF cache_seconds
<1>2. CASE keys # {}
  <2> DEFINE S == {k.exp - now : k \in keys}
  <2>1. S \subseteq Nat /\ S # {}
    BY <1>2
  <2>2. Least(S) \in Nat /\ \A k \in keys : Least(S) <= k.exp - now
    BY <2>1, LeastChosen
  <2>3. cache_seconds(keys, now) = Greatest({Least(S), MinCache})
    BY <1>2 DEF cache_seconds
  <2> DEFINE l == Least(S)
  <2> HIDE DEF S
  <2>4. l \in Nat
    BY <2>2
  <2>5. \A k \in keys : l <= k.exp - now
    BY <2>2 DEF S
  <2>6. cache_seconds(keys, now) = Greatest({l, MinCache})
    BY <2>3 DEF S
  <2> HIDE DEF l
  <2>7. cache_seconds(keys, now) \in {l, MinCache}
    BY <1>0, <2>4, <2>6, GreaterOfTwo
  <2> QED
    BY <1>0, <1>2, <2>4, <2>5, <2>7
<1> QED
  BY <1>1, <1>2

\* A document, however old and from whichever cache: its keys are registered and
\* were live when it was rendered; every key live then is in it, save one
\* registered that very second or later; and if it may be kept beyond the floor,
\* it may be kept no longer than each of its keys lives.
DocumentOK(doc) ==
    /\ doc.rendered <= clock
    /\ doc.keys \subseteq registry
    /\ \A k \in doc.keys : is_active_at(k, doc.rendered)
    /\ \A k \in registry :
          is_active_at(k, doc.rendered) /\ added[k] < doc.rendered => k \in doc.keys
    /\ doc.max_age > MinCache =>
          doc.keys # {} /\ \A k \in doc.keys : doc.rendered + doc.max_age <= k.exp

\* The inductive invariant: so is every copy a verifier holds.
DirectoryInv == TypeOK /\ \A v \in Verifiers : DocumentOK(copy[v])

\* Rendering makes such a document.
LEMMA Rendered ==
    ASSUME TypeOK
    PROVE  render(clock) \in Document /\ DocumentOK(render(clock))
<1> DEFINE A == active(clock)
           m == cache_seconds(A, clock)
<1>1. A \subseteq registry /\ A \subseteq Candidates
  BY DEF active, TypeOK, Advertisable
<1>2. \A k \in A : is_active_at(k, clock) /\ k.exp \in Nat /\ clock < k.exp
  BY <1>1, DirectoryAssumptions DEF active, is_active_at
<1>3. \A k \in registry : is_active_at(k, clock) => k \in A
  BY DEF active
<1>4. clock \in Nat
  BY DEF TypeOK
<1> HIDE DEF A
<1>5. m \in Nat /\ (m > MinCache => A # {} /\ \A k \in A : clock + m <= k.exp)
  BY <1>2, <1>4, CacheSeconds
<1> HIDE DEF m
<1>6. render(clock) = [keys |-> A, rendered |-> clock, max_age |-> m]
  BY DEF render, A, m
<1> QED
  BY <1>1, <1>2, <1>3, <1>4, <1>5, <1>6 DEF Document, DocumentOK

\* Every reachable state is well typed and every copy of the document sound.
LEMMA DirectoryInvHolds == Spec => []DirectoryInv
<1>1. Init => DirectoryInv
  <2> SUFFICES ASSUME Init PROVE DirectoryInv
    OBVIOUS
  <2>1. NoDocument \in Document /\ MinCache \in Nat \ {0}
    BY DirectoryAssumptions DEF NoDocument, Document
  <2>2. DocumentOK(NoDocument)
    <3>1. \A k \in registry : k.nbf \in Nat
      BY DEF Init
    <3> QED
      BY <2>1 DEF Init, DocumentOK, NoDocument
  <2> QED
    BY <2>1, <2>2 DEF Init, DirectoryInv, TypeOK, Document
<1>2. DirectoryInv /\ [Next]_vars => DirectoryInv'
  <2> SUFFICES ASSUME DirectoryInv, [Next]_vars PROVE DirectoryInv'
    OBVIOUS
  <2>0. /\ registry \subseteq Advertisable /\ clock \in Nat /\ added \in [Candidates -> Nat]
        /\ copy \in [Verifiers -> Document]
        /\ \A k \in Candidates : k.nbf \in Nat /\ k.exp \in Nat
    BY DirectoryAssumptions DEF DirectoryInv, TypeOK, Advertisable, Document
  <2>1. ASSUME NEW k \in Candidates, Add(k) PROVE DirectoryInv'
    <3>1. /\ registry' = registry \cup ({k} \cap Advertisable)
          /\ clock' = clock /\ copy' = copy /\ added' \in [Candidates -> Nat]
          /\ registry' \subseteq Advertisable /\ Advertisable \subseteq Candidates
      BY <2>0, <2>1 DEF Add, Advertisable
    <3>2. /\ \A j \in registry : added'[j] = added[j]
          /\ \A j \in registry' \ registry : added'[j] = clock
      BY <2>0, <2>1, <3>1 DEF Add, Advertisable
    <3>3. ASSUME NEW v \in Verifiers PROVE DocumentOK(copy[v])'
      <4> DEFINE doc == copy[v]
      <4>1. DocumentOK(doc) /\ doc.rendered \in Nat /\ doc.rendered <= clock /\ copy'[v] = doc
        BY <2>0, <3>1 DEF DirectoryInv, Document, DocumentOK
      <4>2. ASSUME NEW j \in registry', is_active_at(j, doc.rendered), added'[j] < doc.rendered
            PROVE  j \in doc.keys
        <5>1. j \in registry
          BY <2>0, <3>2, <4>1, <4>2
        <5> QED
          BY <3>2, <4>1, <4>2, <5>1 DEF DocumentOK
      <4> QED
        BY <3>1, <4>1, <4>2 DEF DocumentOK, is_active_at
    <3> QED
      BY <2>0, <3>1, <3>3 DEF DirectoryInv, TypeOK, Document
  <2>2. ASSUME NEW v \in Verifiers, NEW doc \in Document, DocumentOK(doc),
               copy' = [copy EXCEPT ![v] = doc], UNCHANGED <<registry, clock, added>>
        PROVE  DirectoryInv'
    <3>1. copy' \in [Verifiers -> Document]
      BY <2>0, <2>2
    <3>2. ASSUME NEW u \in Verifiers PROVE DocumentOK(copy[u])'
      <4>1. DocumentOK(copy'[u])
        BY <2>0, <2>2 DEF DirectoryInv
      <4> QED
        BY <2>2, <4>1 DEF DocumentOK
    <3> QED
      BY <2>0, <2>2, <3>1, <3>2 DEF DirectoryInv, TypeOK, Advertisable, Document
  <2>3. ASSUME NEW v \in Verifiers, Fetch(v) PROVE DirectoryInv'
    BY <2>2, <2>3, Rendered DEF Fetch, DirectoryInv
  <2>4. ASSUME NEW v \in Verifiers, NEW u \in Verifiers, FetchCached(v, u)
        PROVE  DirectoryInv'
    BY <2>0, <2>2, <2>4 DEF FetchCached, DirectoryInv
  <2>5. CASE Tick
    <3>1. registry' = registry /\ copy' = copy /\ added' = added /\ clock' = clock + 1
      BY <2>5 DEF Tick
    <3>2. ASSUME NEW v \in Verifiers PROVE DocumentOK(copy[v])'
      <4>1. DocumentOK(copy[v]) /\ copy[v].rendered \in Nat
        BY <2>0 DEF DirectoryInv, Document
      <4>2. copy[v].rendered <= clock'
        BY <2>0, <3>1, <4>1 DEF DocumentOK
      <4> QED
        BY <3>1, <4>1, <4>2 DEF DocumentOK
    <3> QED
      BY <2>0, <3>1, <3>2 DEF DirectoryInv, TypeOK, Advertisable, Document
  <2>6. CASE UNCHANGED vars
    BY <2>6 DEF vars, DirectoryInv, TypeOK, DocumentOK
  <2> QED
    BY <2>1, <2>3, <2>4, <2>5, <2>6 DEF Next
<1> QED
  BY <1>1, <1>2, PTL DEF Spec

\* Of a fresh copy past the floor, every key is still live.
LEMMA FreshPastFloor ==
    ASSUME DirectoryInv, NEW v \in Verifiers, Fresh(copy[v]),
           clock >= copy[v].rendered + MinCache
    PROVE  copy[v].keys # {} /\ \A k \in copy[v].keys : is_active_at(k, clock)
<1> DEFINE doc == copy[v]
<1>1. /\ doc \in Document /\ DocumentOK(doc) /\ MinCache \in Nat /\ clock \in Nat
      /\ Fresh(doc) /\ clock >= doc.rendered + MinCache
  BY DirectoryAssumptions DEF DirectoryInv, TypeOK, Document
<1>2. doc.rendered \in Nat /\ doc.max_age \in Nat
  BY <1>1 DEF Document
<1>3. doc.max_age > MinCache
  BY <1>1, <1>2 DEF Fresh
<1>4. ASSUME NEW k \in doc.keys PROVE is_active_at(k, clock)
  <2>1. k.nbf \in Nat /\ k.exp \in Nat
    BY <1>1, DirectoryAssumptions DEF Document
  <2>2. k.nbf <= doc.rendered /\ doc.rendered <= clock
    BY <1>1 DEF DocumentOK, is_active_at
  <2>3. doc.rendered + doc.max_age <= k.exp /\ clock < doc.rendered + doc.max_age
    BY <1>1, <1>3 DEF DocumentOK, Fresh
  <2> QED
    BY <1>1, <1>2, <2>1, <2>2, <2>3 DEF is_active_at
<1> QED
  BY <1>1, <1>3, <1>4 DEF DocumentOK

\* No verifier that honours max-age, whichever cache its copy came from, relies
\* on an expired key for longer than the floor (cache_seconds).
THEOREM FloorHolds == Spec => []ExpiredOnlyWithinFloor
<1>1. DirectoryInv => ExpiredOnlyWithinFloor
  <2> SUFFICES ASSUME DirectoryInv, NEW v \in Verifiers, Fresh(copy[v]),
                      NEW k \in copy[v].keys, k.exp <= clock,
                      ~(clock < copy[v].rendered + MinCache)
               PROVE  FALSE
    BY DEF ExpiredOnlyWithinFloor
  <2>1. clock \in Nat /\ copy[v].rendered + MinCache \in Nat /\ k.exp \in Nat
    BY DirectoryAssumptions DEF DirectoryInv, TypeOK
  <2>2. is_active_at(k, clock)
    BY <2>1, FreshPastFloor
  <2> QED
    BY <2>1, <2>2 DEF is_active_at
<1> QED
  BY <1>1, DirectoryInvHolds, PTL

\* A fresh copy misses a live key only when that became valid or was registered
\* after the rendering, and past the floor only while all the keys it lists are
\* live: whatever windows KeyRegistry::add was given, in whatever order and when.
THEOREM MissedHolds == Spec => []MissedOnlyWhileOthersLive
<1>1. DirectoryInv => MissedOnlyWhileOthersLive
  <2> SUFFICES ASSUME DirectoryInv, NEW v \in Verifiers,
                      NEW k \in active(clock) \ copy[v].keys, Fresh(copy[v])
               PROVE  /\ k.nbf > copy[v].rendered \/ added[k] >= copy[v].rendered
                      /\ \/ clock < copy[v].rendered + MinCache
                         \/ copy[v].keys # {}
                            /\ \A j \in copy[v].keys : is_active_at(j, clock)
    BY DEF MissedOnlyWhileOthersLive
  <2> DEFINE doc == copy[v]
  <2>1. /\ DocumentOK(doc) /\ doc.rendered \in Nat /\ clock \in Nat /\ MinCache \in Nat
        /\ k \in registry /\ is_active_at(k, clock)
    BY DirectoryAssumptions DEF DirectoryInv, TypeOK, active
  <2>2. k.nbf \in Nat /\ k.exp \in Nat /\ added[k] \in Nat
    BY <2>1, DirectoryAssumptions DEF DirectoryInv, TypeOK, Advertisable
  <2>3. k.nbf > doc.rendered \/ added[k] >= doc.rendered
    <3> SUFFICES ASSUME k.nbf <= doc.rendered, added[k] < doc.rendered PROVE FALSE
      BY <2>1, <2>2
    <3>1. is_active_at(k, doc.rendered)
      BY <2>1, <2>2 DEF DocumentOK, is_active_at
    <3> QED
      BY <2>1, <3>1 DEF DocumentOK
  <2> QED
    BY <2>1, <2>3, FreshPastFloor
<1> QED
  BY <1>1, DirectoryInvHolds, PTL
=============================================================================
