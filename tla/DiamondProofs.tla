---------------------------- MODULE DiamondProofs ----------------------------
(***************************************************************************)
(* For every set of selectors and facets, every cut that callers pass and  *)
(* every release: the two indices of LibDiamond stay inverse to the        *)
(* arrays they index, through any pushes and swap-and-pop removals.        *)
(***************************************************************************)
EXTENDS Diamond, NumberLemmas

\* RoutesIndexed of a storage; the second part names the index.
Routed(d) ==
  /\ \A f \in Facets : \A i \in DOMAIN d.selectorsOf[f] :
       d.facetOf[d.selectorsOf[f][i]] = f /\ d.position[d.selectorsOf[f][i]] = i - 1
  /\ \A s \in Selectors : d.facetOf[s] # None =>
       /\ d.position[s] + 1 \in DOMAIN d.selectorsOf[d.facetOf[s]]
       /\ d.selectorsOf[d.facetOf[s]][d.position[s] + 1] = s

\* FacetsListed of a storage, in the middle of a cut: X are facets that are
\* listed whether or not they serve a selector.
Listed(d, X) ==
  /\ ToSet(d.facetAddresses) = {f \in Facets : d.selectorsOf[f] # <<>>} \cup X
  /\ \A i \in DOMAIN d.facetAddresses : d.facetPosition[d.facetAddresses[i]] = i - 1

Sound(X) == {d \in DiamondStorage : Routed(d) /\ Listed(d, X)}

-----------------------------------------------------------------------------
(***************************************************************************)
(* One push, and one swap-and-pop.                                         *)
(***************************************************************************)
LEMMA SwapPop ==
  ASSUME NEW S, NEW q \in Seq(S), NEW p \in Nat, p < Len(q)
  PROVE  /\ SwapPopped(q, p) \in Seq(S) /\ Len(SwapPopped(q, p)) = Len(q) - 1
         /\ \A i \in 1 .. Len(q) - 1 :
              SwapPopped(q, p)[i] = IF i = p + 1 THEN q[Len(q)] ELSE q[i]
<1>1. Len(q) \in Nat /\ Last(q) = q[Len(q)] /\ q[Len(q)] \in S
  BY DEF Last
<1>2. PICK u : u = [q EXCEPT ![p + 1] = Last(q)]
  OBVIOUS
<1>3. u \in Seq(S) /\ Len(u) = Len(q)
  BY <1>1, <1>2
<1>4. \A i \in 1 .. Len(q) : u[i] = IF i = p + 1 THEN q[Len(q)] ELSE q[i]
  BY <1>1, <1>2
<1>5. SwapPopped(q, p) = SubSeq(u, 1, Len(q) - 1)
  BY <1>2, <1>3 DEF SwapPopped, Front
<1>6. /\ SwapPopped(q, p) \in Seq(S) /\ Len(SwapPopped(q, p)) = Len(q) - 1
      /\ \A i \in 1 .. Len(q) - 1 : SwapPopped(q, p)[i] = u[i]
  BY <1>1, <1>3, <1>5
<1>7. QED
  BY <1>1, <1>4, <1>6

LEMMA PushedFields ==
  ASSUME NEW d \in DiamondStorage, NEW f \in Facets, NEW s \in Selectors,
         NEW e, e = Pushed(d, f, s)
  PROVE  /\ e \in DiamondStorage
         /\ e.facetOf = [d.facetOf EXCEPT ![s] = f]
         /\ e.position = [d.position EXCEPT ![s] = Len(d.selectorsOf[f])]
         /\ e.selectorsOf = [d.selectorsOf EXCEPT ![f] = Append(d.selectorsOf[f], s)]
         /\ e.facetPosition = d.facetPosition
         /\ e.facetAddresses = d.facetAddresses
<1>1. d.selectorsOf[f] \in Seq(Selectors)
  BY DEF DiamondStorage
<1>2. e = [facetOf |-> [d.facetOf EXCEPT ![s] = f],
           position |-> [d.position EXCEPT ![s] = Len(d.selectorsOf[f])],
           selectorsOf |-> [d.selectorsOf EXCEPT ![f] = Append(d.selectorsOf[f], s)],
           facetPosition |-> d.facetPosition,
           facetAddresses |-> d.facetAddresses]
  BY DEF Pushed, DiamondStorage
<1>3. /\ [d.facetOf EXCEPT ![s] = f] \in [Selectors -> Facets \cup {None}]
      /\ [d.position EXCEPT ![s] = Len(d.selectorsOf[f])] \in [Selectors -> Nat]
      /\ [d.selectorsOf EXCEPT ![f] = Append(d.selectorsOf[f], s)] \in [Facets -> Seq(Selectors)]
      /\ d.facetPosition \in [Facets -> Nat]
      /\ d.facetAddresses \in Seq(HasCode)
  BY <1>1 DEF DiamondStorage
<1>4. e \in DiamondStorage
  BY <1>2, <1>3 DEF DiamondStorage
<1>5. QED
  BY <1>2, <1>4

\* What a storage keeps at a selector's position.
LEMMA Types ==
  ASSUME NEW d \in DiamondStorage
  PROVE  /\ \A s \in Selectors : d.facetOf[s] \in Facets \cup {None} /\ d.position[s] \in Nat
         /\ \A f \in Facets : /\ d.selectorsOf[f] \in Seq(Selectors) /\ d.facetPosition[f] \in Nat
                              /\ Len(d.selectorsOf[f]) \in Nat
                              /\ DOMAIN d.selectorsOf[f] = 1 .. Len(d.selectorsOf[f])
                              /\ \A i \in DOMAIN d.selectorsOf[f] : d.selectorsOf[f][i] \in Selectors
         /\ DOMAIN d.facetOf = Selectors /\ DOMAIN d.position = Selectors
         /\ DOMAIN d.selectorsOf = Facets /\ DOMAIN d.facetPosition = Facets
         /\ d.facetAddresses \in Seq(HasCode) /\ Len(d.facetAddresses) \in Nat
         /\ DOMAIN d.facetAddresses = 1 .. Len(d.facetAddresses)
         /\ \A i \in DOMAIN d.facetAddresses : d.facetAddresses[i] \in Facets
BY DiamondAssumption DEF DiamondStorage

\* The selector at a place is routed there.
LEMMA RoutedAt ==
  ASSUME NEW d \in DiamondStorage, Routed(d), NEW g \in Facets, NEW i \in DOMAIN d.selectorsOf[g]
  PROVE  \E t \in Selectors : t = d.selectorsOf[g][i] /\ d.facetOf[t] = g /\ d.position[t] = i - 1
BY Types DEF Routed

\* A free selector is given to a facet of the list.
LEMMA PushedSound ==
  ASSUME NEW X, NEW d \in Sound(X), NEW f \in Facets, NEW s \in Selectors,
         d.facetOf[s] = None, f \in ToSet(d.facetAddresses), NEW e, e = Pushed(d, f, s)
  PROVE  e \in Sound(X) /\ e.selectorsOf[f] # <<>> /\ e.facetOf = [d.facetOf EXCEPT ![s] = f]
<1>0. d \in DiamondStorage /\ Routed(d) /\ Listed(d, X)
  BY DEF Sound
<1>1. /\ e \in DiamondStorage
      /\ e.facetOf = [d.facetOf EXCEPT ![s] = f]
      /\ e.position = [d.position EXCEPT ![s] = Len(d.selectorsOf[f])]
      /\ e.selectorsOf = [d.selectorsOf EXCEPT ![f] = Append(d.selectorsOf[f], s)]
      /\ e.facetPosition = d.facetPosition
      /\ e.facetAddresses = d.facetAddresses
  BY <1>0, PushedFields
<1>2. PICK q \in Seq(Selectors), n \in Nat : q = d.selectorsOf[f] /\ n = Len(q)
  BY <1>0, Types
<1>3. PICK r : r = Append(q, s)
  OBVIOUS
<1>4. /\ DOMAIN r = 1 .. n + 1 /\ r # <<>> /\ DOMAIN q = 1 .. n
      /\ r[n + 1] = s /\ \A i \in 1 .. n : r[i] = q[i]
  BY <1>2, <1>3
<1>5. /\ e.selectorsOf[f] = r /\ e.position[s] = n /\ e.facetOf[s] = f
      /\ \A g \in Facets \ {f} : e.selectorsOf[g] = d.selectorsOf[g]
      /\ \A t \in Selectors \ {s} : e.position[t] = d.position[t] /\ e.facetOf[t] = d.facetOf[t]
  BY <1>0, <1>1, <1>2, <1>3, Types
<1>6. \A g \in Facets : \A i \in DOMAIN d.selectorsOf[g] :
        d.selectorsOf[g][i] \in Selectors \ {s}
  BY <1>0, Types, DiamondAssumption DEF Routed
<1>7. ASSUME NEW g \in Facets, NEW i \in DOMAIN e.selectorsOf[g]
      PROVE  e.facetOf[e.selectorsOf[g][i]] = g /\ e.position[e.selectorsOf[g][i]] = i - 1
  <2>1. CASE g # f
    <3>1. PICK t \in Selectors \ {s} : t = d.selectorsOf[g][i]
      BY <1>5, <1>6, <1>7, <2>1
    <3>2. e.selectorsOf[g][i] = t /\ d.facetOf[t] = g /\ d.position[t] = i - 1
      BY <1>0, <1>5, <1>7, <2>1, <3>1 DEF Routed
    <3>3. QED
      BY <1>5, <3>2
  <2>2. CASE g = f /\ i # n + 1
    <3>1. i \in 1 .. n
      BY <1>4, <1>5, <1>7, <2>2
    <3>2. PICK t \in Selectors \ {s} : t = q[i]
      BY <1>2, <1>4, <1>6, <3>1
    <3>3. e.selectorsOf[g][i] = t /\ d.facetOf[t] = f /\ d.position[t] = i - 1
      BY <1>0, <1>2, <1>4, <1>5, <2>2, <3>1, <3>2 DEF Routed
    <3>4. QED
      BY <1>5, <2>2, <3>3
  <2>3. CASE g = f /\ i = n + 1
    BY <1>2, <1>4, <1>5, <2>3
  <2>4. QED
    BY <2>1, <2>2, <2>3
<1>8. ASSUME NEW t \in Selectors, e.facetOf[t] # None
      PROVE  /\ e.position[t] + 1 \in DOMAIN e.selectorsOf[e.facetOf[t]]
             /\ e.selectorsOf[e.facetOf[t]][e.position[t] + 1] = t
  <2>1. CASE t = s
    BY <1>4, <1>5, <2>1
  <2>2. CASE t # s
    <3>1. PICK g \in Facets, k \in Nat : g = d.facetOf[t] /\ k = d.position[t]
      BY <1>0, <1>5, <1>8, <2>2, Types
    <3>2. k + 1 \in DOMAIN d.selectorsOf[g] /\ d.selectorsOf[g][k + 1] = t
      BY <1>0, <1>5, <1>8, <2>2, <3>1 DEF Routed
    <3>3. CASE g # f
      BY <1>5, <2>2, <3>1, <3>2, <3>3
    <3>4. CASE g = f
      <4>1. k + 1 \in 1 .. n /\ k + 1 \in 1 .. n + 1
        BY <1>2, <1>4, <3>2, <3>4
      <4>2. r[k + 1] = t
        BY <1>2, <1>4, <3>2, <3>4, <4>1
      <4>3. e.position[t] = k /\ e.facetOf[t] = f
        BY <1>5, <2>2, <3>1, <3>4
      <4>4. QED
        BY <1>4, <1>5, <4>1, <4>2, <4>3
    <3>5. QED
      BY <3>3, <3>4
  <2>3. QED
    BY <2>1, <2>2
<1>9. Routed(e)
  BY <1>7, <1>8 DEF Routed
<1>10. {g \in Facets : e.selectorsOf[g] # <<>>} = {g \in Facets : d.selectorsOf[g] # <<>>} \cup {f}
  BY <1>4, <1>5
<1>11. Listed(e, X)
  BY <1>0, <1>1, <1>10 DEF Listed
<1>12. QED
  BY <1>1, <1>4, <1>5, <1>9, <1>11 DEF Sound

\* A selector leaves its facet, which stays listed for the moment.
LEMMA PoppedSound ==
  ASSUME NEW X, NEW d \in Sound(X), NEW f \in Facets, NEW s \in Selectors,
         d.facetOf[s] = f, NEW e, e = Popped(d, f, s)
  PROVE  /\ e \in Sound(X \cup {f}) /\ f \in ToSet(d.facetAddresses)
         /\ e.facetOf = [d.facetOf EXCEPT ![s] = None]
         /\ Len(d.selectorsOf[f]) # 1 => e \in Sound(X)
         /\ Len(d.selectorsOf[f]) = 1 => e.selectorsOf[f] = <<>>
<1>0. d \in DiamondStorage /\ Routed(d) /\ Listed(d, X) /\ f # None
  BY DiamondAssumption DEF Sound
<1>1. PICK q \in Seq(Selectors), n \in Nat, p \in Nat :
        q = d.selectorsOf[f] /\ n = Len(q) /\ p = d.position[s]
  BY <1>0, Types
<1>2. DOMAIN q = 1 .. n /\ p + 1 \in 1 .. n /\ q[p + 1] = s
  BY <1>0, <1>1 DEF Routed
<1>3. p < n /\ n >= 1
  BY <1>2
<1>4. PICK r \in Seq(Selectors) :
        /\ r = SwapPopped(q, p) /\ DOMAIN r = 1 .. n - 1 /\ Len(r) = n - 1
        /\ \A i \in 1 .. n - 1 : r[i] = IF i = p + 1 THEN q[n] ELSE q[i]
  <2>1. PICK r : r = SwapPopped(q, p)
    OBVIOUS
  <2>2. /\ r \in Seq(Selectors) /\ Len(r) = Len(q) - 1
        /\ \A i \in 1 .. Len(q) - 1 : r[i] = IF i = p + 1 THEN q[Len(q)] ELSE q[i]
    BY <1>1, <1>3, <2>1, SwapPop
  <2>3. DOMAIN r = 1 .. n - 1 /\ Len(r) = n - 1
    BY <1>1, <1>3, <2>2
  <2>4. QED
    BY <1>1, <2>1, <2>2, <2>3
<1>5. PICK l \in Selectors : l = q[n] /\ d.facetOf[l] = f /\ d.position[l] = n - 1
  BY <1>0, <1>1, <1>2, <1>3, Types DEF Routed
<1>6. /\ e = [facetOf |-> [d.facetOf EXCEPT ![s] = None],
              position |-> [d.position EXCEPT ![l] = p, ![s] = 0],
              selectorsOf |-> [d.selectorsOf EXCEPT ![f] = r],
              facetPosition |-> d.facetPosition,
              facetAddresses |-> d.facetAddresses]
      /\ e \in DiamondStorage
  <2>1. e = [facetOf |-> [d.facetOf EXCEPT ![s] = None],
             position |-> [d.position EXCEPT ![l] = p, ![s] = 0],
             selectorsOf |-> [d.selectorsOf EXCEPT ![f] = r],
             facetPosition |-> d.facetPosition,
             facetAddresses |-> d.facetAddresses]
    BY <1>0, <1>1, <1>4, <1>5 DEF Popped, Last, DiamondStorage
  <2>2. /\ [d.facetOf EXCEPT ![s] = None] \in [Selectors -> Facets \cup {None}]
        /\ [d.position EXCEPT ![l] = p, ![s] = 0] \in [Selectors -> Nat]
        /\ [d.selectorsOf EXCEPT ![f] = r] \in [Facets -> Seq(Selectors)]
        /\ d.facetPosition \in [Facets -> Nat]
        /\ d.facetAddresses \in Seq(HasCode)
    BY <1>0 DEF DiamondStorage
  <2>3. PICK a, b, c :
          /\ a = [d.facetOf EXCEPT ![s] = None]
          /\ b = [d.position EXCEPT ![l] = p, ![s] = 0]
          /\ c = [d.selectorsOf EXCEPT ![f] = r]
    OBVIOUS
  <2>4. e \in DiamondStorage
    <3>1. /\ a \in [Selectors -> Facets \cup {None}] /\ b \in [Selectors -> Nat]
          /\ c \in [Facets -> Seq(Selectors)]
      BY <2>2, <2>3
    <3>2. e = [facetOf |-> a, position |-> b, selectorsOf |-> c,
               facetPosition |-> d.facetPosition, facetAddresses |-> d.facetAddresses]
      BY <2>1, <2>3
    <3>3. QED
      BY <2>2, <3>1, <3>2 DEF DiamondStorage
  <2>5. QED
    BY <2>1, <2>4
<1>7. /\ e.selectorsOf[f] = r /\ e.facetOf[s] = None
      /\ l # s => e.position[l] = p
      /\ \A g \in Facets \ {f} : e.selectorsOf[g] = d.selectorsOf[g]
      /\ \A t \in Selectors \ {s} : e.facetOf[t] = d.facetOf[t]
      /\ \A t \in Selectors \ {s, l} : e.position[t] = d.position[t]
      /\ e.facetAddresses = d.facetAddresses /\ e.facetPosition = d.facetPosition
      /\ e.facetOf = [d.facetOf EXCEPT ![s] = None]
  BY <1>0, <1>6, Types
<1>8. ASSUME NEW g \in Facets, NEW i \in DOMAIN e.selectorsOf[g]
      PROVE  e.facetOf[e.selectorsOf[g][i]] = g /\ e.position[e.selectorsOf[g][i]] = i - 1
  <2>1. CASE g # f
    <3>1. PICK t \in Selectors : t = d.selectorsOf[g][i] /\ d.facetOf[t] = g /\ d.position[t] = i - 1
      <4>1. i \in DOMAIN d.selectorsOf[g]
        BY <1>7, <1>8, <2>1
      <4>2. QED
        BY <1>0, <4>1, RoutedAt
    <3>2. t # s /\ t # l
      BY <1>5, <2>1, <3>1
    <3>3. QED
      BY <1>7, <2>1, <3>1, <3>2
  <2>2. CASE g = f /\ i = p + 1
    <3>1. i \in 1 .. n - 1 /\ r[i] = l
      BY <1>4, <1>5, <1>7, <1>8, <2>2
    <3>2. l # s
      BY <1>1, <1>5, <2>2, <3>1
    <3>3. QED
      BY <1>5, <1>7, <2>2, <3>1, <3>2
  <2>3. CASE g = f /\ i # p + 1
    <3>1. i \in 1 .. n - 1 /\ i \in 1 .. n /\ i # n /\ i - 1 # n - 1 /\ i - 1 # p
      BY <1>4, <1>7, <1>8, <2>3
    <3>2. PICK t \in Selectors : t = q[i] /\ d.facetOf[t] = f /\ d.position[t] = i - 1
      <4>1. i \in DOMAIN d.selectorsOf[f]
        BY <1>1, <1>2, <3>1
      <4>2. QED
        BY <1>0, <1>1, <4>1, RoutedAt
    <3>3. t # s /\ t # l
      BY <1>1, <1>5, <3>1, <3>2
    <3>4. e.selectorsOf[g][i] = t
      BY <1>4, <1>7, <2>3, <3>1, <3>2
    <3>5. QED
      BY <1>7, <2>3, <3>2, <3>3, <3>4
  <2>4. QED
    BY <2>1, <2>2, <2>3
<1>9. ASSUME NEW t \in Selectors, e.facetOf[t] # None
      PROVE  /\ e.position[t] + 1 \in DOMAIN e.selectorsOf[e.facetOf[t]]
             /\ e.selectorsOf[e.facetOf[t]][e.position[t] + 1] = t
  <2>1. t # s
    BY <1>7, <1>9
  <2>2. PICK g \in Facets, k \in Nat : g = d.facetOf[t] /\ k = d.position[t] /\ e.facetOf[t] = g
    BY <1>0, <1>7, <1>9, <2>1, Types
  <2>3. k + 1 \in DOMAIN d.selectorsOf[g] /\ d.selectorsOf[g][k + 1] = t
    BY <1>0, <1>7, <1>9, <2>1, <2>2 DEF Routed
  <2>4. CASE g # f
    <3>1. t # l
      BY <1>5, <2>2, <2>4
    <3>2. QED
      BY <1>7, <2>1, <2>2, <2>3, <2>4, <3>1
  <2>5. CASE g = f /\ t = l
    <3>1. p + 1 # n
      BY <1>2, <1>5, <2>1, <2>5
    <3>2. p + 1 \in 1 .. n - 1
      BY <1>2, <3>1
    <3>3. QED
      BY <1>4, <1>5, <1>7, <2>1, <2>2, <2>5, <3>2
  <2>6. CASE g = f /\ t # l
    <3>1. k + 1 \in 1 .. n /\ k + 1 # n /\ k # p
      BY <1>1, <1>2, <1>5, <2>1, <2>3, <2>6
    <3>2. k + 1 \in 1 .. n - 1 /\ k + 1 # p + 1
      BY <3>1
    <3>3. r[k + 1] = t
      BY <1>1, <1>4, <2>3, <2>6, <3>2
    <3>4. QED
      BY <1>4, <1>7, <2>1, <2>2, <2>6, <3>2, <3>3
  <2>7. QED
    BY <2>4, <2>5, <2>6
<1>10. Routed(e)
  BY <1>8, <1>9 DEF Routed
<1>11. q # <<>>
  BY <1>2
<1>12. f \in ToSet(d.facetAddresses)
  BY <1>0, <1>1, <1>11 DEF Listed
<1>13. Listed(e, X \cup {f})
  <2>1. {g \in Facets : e.selectorsOf[g] # <<>>} \cup {f} = {g \in Facets : d.selectorsOf[g] # <<>>} \cup {f}
    BY <1>7
  <2>2. {g \in Facets : d.selectorsOf[g] # <<>>} \cup {f} = {g \in Facets : d.selectorsOf[g] # <<>>}
    BY <1>1, <1>11
  <2>3. QED
    BY <1>0, <1>7, <2>1, <2>2 DEF Listed
<1>14. ASSUME n # 1
       PROVE  Listed(e, X)
  <2>1. r # <<>>
    BY <1>3, <1>4, <1>14
  <2>2. {g \in Facets : e.selectorsOf[g] # <<>>} = {g \in Facets : d.selectorsOf[g] # <<>>}
    BY <1>1, <1>7, <1>11, <2>1
  <2>3. QED
    BY <1>0, <1>7, <2>2 DEF Listed
<1>15. n = 1 => r = <<>>
  BY <1>4
<1>16. QED
  BY <1>1, <1>6, <1>7, <1>10, <1>12, <1>13, <1>14, <1>15 DEF Sound

\* A facet that serves nothing any more leaves the list.
LEMMA UnlistedSound ==
  ASSUME NEW X, NEW f \in Facets, f \notin X, NEW d \in Sound(X \cup {f}),
         d.selectorsOf[f] = <<>>, NEW e, e = Unlisted(d, f)
  PROVE  e \in Sound(X) /\ e.facetOf = d.facetOf
<1>0. d \in DiamondStorage /\ Routed(d) /\ Listed(d, X \cup {f})
  BY DEF Sound
<1>1. PICK q \in Seq(HasCode), n \in Nat, p \in Nat :
        q = d.facetAddresses /\ n = Len(q) /\ DOMAIN q = 1 .. n /\ p = d.facetPosition[f]
  BY <1>0, Types
<1>2. p + 1 \in 1 .. n /\ q[p + 1] = f /\ p < n
  <2>1. f \in ToSet(q)
    BY <1>0, <1>1 DEF Listed
  <2>2. PICK j \in 1 .. n : q[j] = f
    BY <1>1, <2>1 DEF ToSet
  <2>3. p = j - 1
    BY <1>0, <1>1, <2>2 DEF Listed
  <2>4. QED
    BY <1>1, <2>2, <2>3
<1>3. \A i \in 1 .. n : d.facetPosition[q[i]] = i - 1 /\ q[i] \in Facets
  BY <1>0, <1>1, Types DEF Listed
<1>4. PICK r \in Seq(HasCode) :
        /\ r = SwapPopped(q, p) /\ DOMAIN r = 1 .. n - 1
        /\ \A i \in 1 .. n - 1 : r[i] = IF i = p + 1 THEN q[n] ELSE q[i]
  <2>1. PICK r : r = SwapPopped(q, p)
    OBVIOUS
  <2>2. /\ r \in Seq(HasCode) /\ Len(r) = Len(q) - 1
        /\ \A i \in 1 .. Len(q) - 1 : r[i] = IF i = p + 1 THEN q[Len(q)] ELSE q[i]
    <3>1. p < Len(q)
      BY <1>1, <1>2
    <3>2. QED
      BY <2>1, <3>1, SwapPop
  <2>3. DOMAIN r = 1 .. n - 1
    BY <1>1, <1>2, <2>2
  <2>4. QED
    BY <1>1, <2>1, <2>2, <2>3
<1>5. PICK l \in Facets : l = q[n] /\ d.facetPosition[l] = n - 1
  BY <1>2, <1>3
<1>6. /\ e = [facetOf |-> d.facetOf, position |-> d.position, selectorsOf |-> d.selectorsOf,
              facetPosition |-> [d.facetPosition EXCEPT ![l] = p, ![f] = 0],
              facetAddresses |-> r]
      /\ e \in DiamondStorage
  <2>1. e = [facetOf |-> d.facetOf, position |-> d.position, selectorsOf |-> d.selectorsOf,
             facetPosition |-> [d.facetPosition EXCEPT ![l] = p, ![f] = 0],
             facetAddresses |-> r]
    BY <1>0, <1>1, <1>4, <1>5 DEF Unlisted, Last, DiamondStorage
  <2>2. PICK a : a = [d.facetPosition EXCEPT ![l] = p, ![f] = 0]
    OBVIOUS
  <2>3. a \in [Facets -> Nat]
    BY <1>0, <2>2 DEF DiamondStorage
  <2>4. e = [facetOf |-> d.facetOf, position |-> d.position, selectorsOf |-> d.selectorsOf,
             facetPosition |-> a, facetAddresses |-> r]
    BY <2>1, <2>2
  <2>5. e \in DiamondStorage
    BY <1>0, <2>3, <2>4 DEF DiamondStorage
  <2>6. QED
    BY <2>1, <2>5
<1>7. /\ e.facetOf = d.facetOf /\ e.position = d.position /\ e.selectorsOf = d.selectorsOf
      /\ e.facetAddresses = r
      /\ l # f => e.facetPosition[l] = p
      /\ \A g \in Facets \ {f, l} : e.facetPosition[g] = d.facetPosition[g]
  BY <1>0, <1>6, Types
<1>8. Routed(e)
  BY <1>0, <1>7 DEF Routed
<1>9. ASSUME NEW i \in 1 .. n - 1
      PROVE  r[i] # f /\ r[i] \in ToSet(q) /\ e.facetPosition[r[i]] = i - 1
  <2>1. i \in 1 .. n /\ i # n
    BY <1>2
  <2>2. CASE i = p + 1
    <3>1. r[i] = l /\ n - 1 # p
      BY <1>4, <1>5, <2>1, <2>2
    <3>2. l # f
      BY <1>1, <1>5, <3>1
    <3>3. l \in ToSet(q)
      BY <1>1, <1>2, <1>5 DEF ToSet
    <3>4. i - 1 = p
      BY <2>2
    <3>5. QED
      BY <1>7, <3>1, <3>2, <3>3, <3>4
  <2>3. CASE i # p + 1
    <3>1. r[i] = q[i] /\ i - 1 # p /\ i - 1 # n - 1
      BY <1>4, <2>1, <2>3
    <3>2. q[i] # f /\ q[i] # l /\ q[i] \in Facets
      BY <1>1, <1>3, <1>5, <2>1, <3>1
    <3>3. q[i] \in ToSet(q)
      BY <1>1, <2>1 DEF ToSet
    <3>4. QED
      BY <1>3, <1>7, <2>1, <3>1, <3>2, <3>3
  <2>4. QED
    BY <2>2, <2>3
<1>10. ASSUME NEW g \in ToSet(q), g # f
       PROVE  g \in ToSet(r)
  <2>1. PICK k \in 1 .. n : g = q[k]
    BY <1>1 DEF ToSet
  <2>2. k # p + 1
    BY <1>2, <1>10, <2>1
  <2>3. CASE k = n
    <3>1. p + 1 \in 1 .. n - 1
      BY <1>2, <2>2, <2>3
    <3>2. r[p + 1] = g
      BY <1>4, <2>1, <2>3, <3>1
    <3>3. QED
      BY <1>4, <3>1, <3>2 DEF ToSet
  <2>4. CASE k # n
    <3>1. k \in 1 .. n - 1
      BY <2>1, <2>4
    <3>2. r[k] = g
      BY <1>4, <2>1, <2>2, <3>1
    <3>3. QED
      BY <1>4, <3>1, <3>2 DEF ToSet
  <2>5. QED
    BY <2>3, <2>4
<1>11. ToSet(r) = ToSet(q) \ {f}
  <2>1. ToSet(r) \subseteq ToSet(q) \ {f}
    BY <1>4, <1>9 DEF ToSet
  <2>2. QED
    BY <1>10, <2>1
<1>12. ToSet(q) \ {f} = {g \in Facets : d.selectorsOf[g] # <<>>} \cup X
  BY <1>0, <1>1 DEF Listed
<1>13. Listed(e, X)
  BY <1>4, <1>7, <1>9, <1>11, <1>12 DEF Listed
<1>14. QED
  BY <1>6, <1>7, <1>8, <1>13 DEF Sound

\* A facet is in the list before it serves its first selector.
LEMMA RegisteredSound ==
  ASSUME NEW d \in Sound({}), NEW f \in Facets, NEW e, e = Registered(d, f), e # None
  PROVE  e \in Sound({f}) /\ e.facetOf = d.facetOf
<1>0. d \in DiamondStorage /\ Routed(d) /\ Listed(d, {})
  BY DEF Sound
<1>1. CASE d.selectorsOf[f] # <<>>
  <2>1. e = d
    BY <1>1 DEF Registered
  <2>2. Listed(d, {f})
    BY <1>0, <1>1 DEF Listed
  <2>3. QED
    BY <1>0, <2>1, <2>2 DEF Sound
<1>2. CASE d.selectorsOf[f] = <<>>
  <2>1. f \in HasCode
    BY <1>2 DEF Registered
  <2>2. PICK q \in Seq(HasCode), n \in Nat :
          q = d.facetAddresses /\ n = Len(q) /\ DOMAIN q = 1 .. n
    BY <1>0, Types
  <2>3. PICK r \in Seq(HasCode) : /\ r = Append(q, f) /\ DOMAIN r = 1 .. n + 1
                                  /\ r[n + 1] = f /\ \A i \in 1 .. n : r[i] = q[i]
    <3>1. PICK r : r = Append(q, f)
      OBVIOUS
    <3>2. r \in Seq(HasCode) /\ Len(r) = n + 1
      BY <2>1, <2>2, <3>1
    <3>3. DOMAIN r = 1 .. n + 1 /\ r[n + 1] = f
      BY <2>1, <2>2, <3>1, <3>2
    <3>4. \A i \in 1 .. n : r[i] = q[i]
      BY <2>1, <2>2, <3>1, <3>2
    <3>5. QED
      BY <3>1, <3>2, <3>3, <3>4
  <2>4. e = [d EXCEPT !.facetPosition[f] = n, !.facetAddresses = r]
    BY <1>2, <2>1, <2>2, <2>3 DEF Registered
  <2>5. PICK a \in [Facets -> Nat] : a = [d.facetPosition EXCEPT ![f] = n]
    BY <1>0 DEF DiamondStorage
  <2>6. e = [facetOf |-> d.facetOf, position |-> d.position, selectorsOf |-> d.selectorsOf,
             facetPosition |-> a, facetAddresses |-> r]
    BY <1>0, <2>4, <2>5 DEF DiamondStorage
  <2>7. e \in DiamondStorage
    BY <1>0, <2>6 DEF DiamondStorage
  <2>8. Routed(e)
    BY <1>0, <2>6 DEF Routed
  <2>9. a[f] = n /\ \A g \in Facets \ {f} : a[g] = d.facetPosition[g]
    BY <2>5
  <2>10. f \notin ToSet(q)
    BY <1>0, <1>2, <2>2 DEF Listed
  <2>11. \A i \in 1 .. n + 1 : a[r[i]] = i - 1
    <3>1. ASSUME NEW i \in 1 .. n
          PROVE  a[r[i]] = i - 1
      <4>1. q[i] # f /\ q[i] \in Facets /\ d.facetPosition[q[i]] = i - 1
        BY <1>0, <2>2, <2>10, Types DEF ToSet, Listed
      <4>2. QED
        BY <2>3, <2>9, <4>1
    <3>2. a[r[n + 1]] = (n + 1) - 1
      BY <2>3, <2>9
    <3>3. \A i \in 1 .. n + 1 : i = n + 1 \/ i \in 1 .. n
      OBVIOUS
    <3>4. QED
      BY <3>1, <3>2, <3>3
  <2>12. ToSet(r) = ToSet(q) \cup {f}
    <3>1. ToSet(r) \subseteq ToSet(q) \cup {f}
      <4>1. \A i \in 1 .. n + 1 : i = n + 1 \/ i \in 1 .. n
        OBVIOUS
      <4>2. QED
        BY <2>2, <2>3, <4>1 DEF ToSet
    <3>2. \A i \in 1 .. n : i \in 1 .. n + 1
      OBVIOUS
    <3>3. n + 1 \in 1 .. n + 1
      OBVIOUS
    <3>4. QED
      BY <2>2, <2>3, <3>1, <3>2, <3>3 DEF ToSet
  <2>13. Listed(e, {f})
    BY <1>0, <2>2, <2>3, <2>6, <2>11, <2>12 DEF Listed
  <2>14. QED
    BY <2>6, <2>7, <2>8, <2>13 DEF Sound
<1>3. QED
  BY <1>1, <1>2

-----------------------------------------------------------------------------
(***************************************************************************)
(* One selector of a cut.                                                  *)
(***************************************************************************)
LEMMA RemoveSound ==
  ASSUME NEW X, NEW d \in Sound(X), NEW s \in Selectors, NEW f, f = d.facetOf[s],
         f \notin X \cup {None, Self}, NEW e, e = RemoveFunction(d, f, s)
  PROVE  e \in Sound(X) /\ e.facetOf = [d.facetOf EXCEPT ![s] = None]
<1>1. f \in Facets
  BY Types DEF Sound
<1>2. PICK u : u = Popped(d, f, s)
  OBVIOUS
<1>3. /\ u \in Sound(X \cup {f})
      /\ u.facetOf = [d.facetOf EXCEPT ![s] = None]
      /\ Len(d.selectorsOf[f]) # 1 => u \in Sound(X)
      /\ Len(d.selectorsOf[f]) = 1 => u.selectorsOf[f] = <<>>
  BY <1>1, <1>2, PoppedSound
<1>4. CASE Len(d.selectorsOf[f]) = 1
  <2>1. e = Unlisted(u, f)
    BY <1>2, <1>4 DEF RemoveFunction
  <2>2. e \in Sound(X) /\ e.facetOf = u.facetOf
    BY <1>1, <1>3, <1>4, <2>1, UnlistedSound
  <2>3. QED
    BY <1>3, <2>2
<1>5. CASE Len(d.selectorsOf[f]) # 1
  <2>1. e = u
    BY <1>2, <1>5 DEF RemoveFunction
  <2>2. QED
    BY <1>3, <1>5, <2>1
<1>6. QED
  BY <1>4, <1>5

LEMMA AddSound ==
  ASSUME NEW f \in Facets, NEW d \in Sound({f}), NEW s \in Selectors, d.facetOf[s] = None,
         NEW e, e = AddFunction(d, f, s)
  PROVE  /\ e \in Sound({f}) /\ e.selectorsOf[f] # <<>>
         /\ e.facetOf = [d.facetOf EXCEPT ![s] = f]
<1>1. e = Pushed(d, f, s)
  BY DEF AddFunction
<1>2. f \in ToSet(d.facetAddresses)
  BY DEF Sound, Listed
<1>3. QED
  BY <1>1, <1>2, PushedSound

LEMMA StorageIsSome == \A X : \A d \in Sound(X) : d # None
BY DiamondAssumption DEF Sound

LEMMA ReplaceSound ==
  ASSUME NEW f \in Facets, NEW d \in Sound({f}), NEW s \in Selectors,
         d.facetOf[s] \notin {None, Self, f}, NEW e, e = ReplaceFunction(d, f, s)
  PROVE  /\ e \in Sound({f}) /\ e.selectorsOf[f] # <<>>
         /\ e.facetOf = [d.facetOf EXCEPT ![s] = f]
<1>1. PICK u : u = RemoveFunction(d, d.facetOf[s], s)
  OBVIOUS
<1>2. u \in Sound({f}) /\ u.facetOf = [d.facetOf EXCEPT ![s] = None]
  BY <1>1, RemoveSound
<1>3. u # None
  BY <1>2, StorageIsSome
<1>4. e = Pushed(u, f, s)
  BY <1>1, <1>3 DEF ReplaceFunction
<1>5. DOMAIN d.facetOf = Selectors
  BY Types DEF Sound
<1>6. u.facetOf[s] = None /\ f \in ToSet(u.facetAddresses)
  BY <1>2, <1>5 DEF Sound, Listed
<1>7. /\ e \in Sound({f}) /\ e.selectorsOf[f] # <<>>
      /\ e.facetOf = [u.facetOf EXCEPT ![s] = f]
  BY <1>2, <1>4, <1>6, PushedSound
<1>8. [u.facetOf EXCEPT ![s] = f] = [d.facetOf EXCEPT ![s] = f]
  BY <1>2, <1>5
<1>9. QED
  BY <1>7, <1>8

\* When a cut may change a selector, seen in the table of routes alone.
May(t, cut, s) ==
  \/ cut.action = "Add" /\ t[s] = None
  \/ cut.action = "Replace" /\ t[s] \notin {None, Self, cut.facet}
  \/ cut.action = "Remove" /\ t[s] \notin {None, Self}

\* The cuts that name selectors, and a facet unless they remove.
Fitting ==
  {cut \in FacetCut : cut.selectors # <<>> /\ (cut.facet = None <=> cut.action = "Remove")}

\* The facet that is listed while a cut runs, whether or not it serves yet.
Target(cut) == {cut.facet} \ {None}

LEMMA SelectorStep ==
  ASSUME NEW cut \in Fitting, NEW d \in Sound(Target(cut)), NEW s \in Selectors,
         NEW e, e = ApplySelector(d, cut, s)
  PROVE  /\ e # None <=> May(d.facetOf, cut, s)
         /\ e # None => /\ e \in Sound(Target(cut))
                        /\ e.facetOf = [d.facetOf EXCEPT ![s] = cut.facet]
                        /\ cut.facet # None => e.selectorsOf[cut.facet] # <<>>
<1>0. PICK f : f = cut.facet /\ f \in Facets \cup {None}
  BY DEF Fitting, FacetCut
<1>1. CASE cut.action = "Add"
  <2>1. f \in Facets /\ Target(cut) = {f} /\ e = AddFunction(d, f, s)
    BY <1>0, <1>1 DEF Fitting, Target, ApplySelector
  <2>2. CASE d.facetOf[s] # None
    BY <1>1, <2>1, <2>2 DEF AddFunction, May
  <2>3. CASE d.facetOf[s] = None
    <3>1. e \in Sound({f}) /\ e.selectorsOf[f] # <<>> /\ e.facetOf = [d.facetOf EXCEPT ![s] = f]
      BY <2>1, <2>3, AddSound
    <3>2. e # None
      BY <3>1, StorageIsSome
    <3>3. QED
      BY <1>0, <1>1, <2>1, <2>3, <3>1, <3>2 DEF May
  <2>4. QED
    BY <2>2, <2>3
<1>2. CASE cut.action = "Replace"
  <2>1. f \in Facets /\ Target(cut) = {f} /\ e = ReplaceFunction(d, f, s)
    BY <1>0, <1>2 DEF Fitting, Target, ApplySelector
  <2>2. CASE d.facetOf[s] \in {None, Self, f}
    BY <1>0, <1>2, <2>1, <2>2 DEF ReplaceFunction, RemoveFunction, May
  <2>3. CASE d.facetOf[s] \notin {None, Self, f}
    <3>1. e \in Sound({f}) /\ e.selectorsOf[f] # <<>> /\ e.facetOf = [d.facetOf EXCEPT ![s] = f]
      BY <2>1, <2>3, ReplaceSound
    <3>2. e # None
      BY <3>1, StorageIsSome
    <3>3. QED
      BY <1>0, <1>2, <2>1, <2>3, <3>1, <3>2 DEF May
  <2>4. QED
    BY <2>2, <2>3
<1>3. CASE cut.action = "Remove"
  <2>1. f = None /\ Target(cut) = {} /\ e = RemoveFunction(d, d.facetOf[s], s)
    BY <1>0, <1>3 DEF Fitting, Target, ApplySelector
  <2>2. CASE d.facetOf[s] \in {None, Self}
    BY <1>3, <2>1, <2>2 DEF RemoveFunction, May
  <2>3. CASE d.facetOf[s] \notin {None, Self}
    <3>1. e \in Sound({}) /\ e.facetOf = [d.facetOf EXCEPT ![s] = None]
      BY <2>1, <2>3, RemoveSound
    <3>2. e # None
      BY <3>1, StorageIsSome
    <3>3. QED
      BY <1>0, <1>3, <2>1, <2>3, <3>1, <3>2 DEF May
  <2>4. QED
    BY <2>2, <2>3
<1>4. QED
  BY <1>1, <1>2, <1>3 DEF Fitting, FacetCut

-----------------------------------------------------------------------------
(***************************************************************************)
(* One cut: a loop over its selectors.                                     *)
(***************************************************************************)
\* The first i selectors of a cut may be changed, and what that gives.
AllowedTo(t, cut, i) ==
  /\ \A j \in 1 .. i : May(t, cut, cut.selectors[j])
  /\ \A j, k \in 1 .. i : cut.selectors[j] = cut.selectors[k] => j = k

Applied(t, cut, i) ==
  [s \in Selectors |-> IF \E j \in 1 .. i : cut.selectors[j] = s THEN cut.facet ELSE t[s]]

\* The storage after i selectors.
Loop(t, cut, i) ==
  {e \in Sound(Target(cut)) \cup {None} :
     /\ e # None <=> AllowedTo(t, cut, i)
     /\ e # None => e.facetOf = Applied(t, cut, i)
     /\ e # None /\ i > 0 /\ cut.facet # None => e.selectorsOf[cut.facet] # <<>>}

NextStorage(d, cut, s) == IF d = None THEN None ELSE ApplySelector(d, cut, s)

LEMMA CutSelectors ==
  ASSUME NEW cut \in Fitting
  PROVE  /\ cut.selectors \in Seq(Selectors) /\ Len(cut.selectors) \in Nat \ {0}
         /\ DOMAIN cut.selectors = 1 .. Len(cut.selectors)
         /\ \A i \in 1 .. Len(cut.selectors) : cut.selectors[i] \in Selectors
         /\ cut.facet \in Facets \cup {None}
BY DEF Fitting, FacetCut

LEMMA LoopStep ==
  ASSUME NEW cut \in Fitting, NEW t, NEW i \in 1 .. Len(cut.selectors),
         NEW x \in Loop(t, cut, i - 1), NEW y, y = NextStorage(x, cut, cut.selectors[i])
  PROVE  y \in Loop(t, cut, i)
<1>0. PICK s \in Selectors : s = cut.selectors[i]
  BY CutSelectors
<1>1. /\ i \in Nat /\ i > 0 /\ i \in 1 .. i
      /\ \A j \in 1 .. i : j \in 1 .. i - 1 \/ j = i
      /\ \A j \in 1 .. i - 1 : j \in 1 .. i /\ j # i
  BY CutSelectors
<1>2. CASE x = None
  <2>1. ~AllowedTo(t, cut, i - 1)
    BY <1>2 DEF Loop
  <2>2. ~AllowedTo(t, cut, i)
    BY <1>1, <2>1 DEF AllowedTo
  <2>3. QED
    BY <1>2, <2>2 DEF Loop, NextStorage
<1>3. CASE x # None
  <2>1. /\ x \in Sound(Target(cut)) /\ x.facetOf = Applied(t, cut, i - 1)
        /\ AllowedTo(t, cut, i - 1) /\ y = ApplySelector(x, cut, s)
    BY <1>0, <1>3 DEF Loop, NextStorage
  <2>2. /\ y # None <=> May(x.facetOf, cut, s)
        /\ y # None => /\ y \in Sound(Target(cut))
                       /\ y.facetOf = [x.facetOf EXCEPT ![s] = cut.facet]
                       /\ cut.facet # None => y.selectorsOf[cut.facet] # <<>>
    BY <2>1, SelectorStep
  <2>3. May(x.facetOf, cut, s) <=> AllowedTo(t, cut, i)
    <3>1. CASE \E j \in 1 .. i - 1 : cut.selectors[j] = s
      <4>1. x.facetOf[s] = cut.facet
        BY <2>1, <3>1 DEF Applied
      <4>2. ~May(x.facetOf, cut, s)
        BY <4>1 DEF May, Fitting
      <4>3. ~AllowedTo(t, cut, i)
        BY <1>0, <1>1, <3>1 DEF AllowedTo
      <4>4. QED
        BY <4>2, <4>3
    <3>2. CASE ~\E j \in 1 .. i - 1 : cut.selectors[j] = s
      <4>1. x.facetOf[s] = t[s]
        BY <2>1, <3>2 DEF Applied
      <4>2. May(x.facetOf, cut, s) <=> May(t, cut, s)
        BY <4>1 DEF May
      <4>3. AllowedTo(t, cut, i) <=> May(t, cut, s)
        BY <1>0, <1>1, <2>1, <3>2 DEF AllowedTo
      <4>4. QED
        BY <4>2, <4>3
    <3>3. QED
      BY <3>1, <3>2
  <2>4. [x.facetOf EXCEPT ![s] = cut.facet] = Applied(t, cut, i)
    <3>1. \A z \in Selectors : (\E j \in 1 .. i : cut.selectors[j] = z)
                               <=> (z = s \/ \E j \in 1 .. i - 1 : cut.selectors[j] = z)
      BY <1>0, <1>1
    <3>2. QED
      BY <2>1, <3>1 DEF Applied
  <2>5. QED
    BY <2>2, <2>3, <2>4 DEF Loop
<1>4. QED
  BY <1>2, <1>3

\* The storages between the changes of one cut.
LEMMA SelectorsRun ==
  ASSUME NEW d, NEW cut \in Fitting
  PROVE  \E w : /\ w[0] = d /\ w[Len(cut.selectors)] = AfterSelectors(d, cut)
                /\ \A i \in 1 .. Len(cut.selectors) :
                     w[i] = NextStorage(w[i - 1], cut, cut.selectors[i])
<1> DEFINE q == cut.selectors
           Runs(w, k) == w = [i \in 0 .. k |->
             IF i = 0 THEN d ELSE IF w[i - 1] = None THEN None ELSE ApplySelector(w[i - 1], cut, q[i])]
           T == {k \in Nat : \E w : Runs(w, k)}
<1>1. 0 \in T
  <2>1. Runs([i \in 0 .. 0 |-> d], 0)
    OBVIOUS
  <2>2. QED
    BY <2>1
<1>2. ASSUME NEW k \in Nat, k \in T
      PROVE  k + 1 \in T
  <2>1. PICK w : Runs(w, k)
    BY <1>2
  <2> DEFINE u == [i \in 0 .. k + 1 |-> IF i = k + 1 THEN NextStorage(w[k], cut, q[i]) ELSE w[i]]
  <2>2. \A i \in 0 .. k + 1 :
          u[i] = IF i = 0 THEN d
                 ELSE IF u[i - 1] = None THEN None ELSE ApplySelector(u[i - 1], cut, q[i])
    BY <2>1 DEF NextStorage
  <2>3. Runs(u, k + 1)
    BY <2>2
  <2> HIDE DEF u
  <2>4. \E z : Runs(z, k + 1)
    BY <2>3
  <2>5. QED
    BY <2>4
<1> HIDE DEF T
<1>3. Len(q) \in T
  BY <1>1, <1>2, AllNaturals, CutSelectors
<1>4. \E w : Runs(w, Len(q))
  BY <1>3 DEF T
<1> DEFINE storage == CHOOSE w : Runs(w, Len(q))
<1>5. Runs(storage, Len(q))
  BY <1>4
<1>6. AfterSelectors(d, cut) = storage[Len(q)]
  BY DEF AfterSelectors
<1> HIDE DEF storage
<1>7. storage[0] = d
  BY <1>5, CutSelectors
<1>8. ASSUME NEW i \in 1 .. Len(q)
      PROVE  storage[i] = NextStorage(storage[i - 1], cut, q[i])
  <2>1. i \in 0 .. Len(q) /\ i # 0
    BY CutSelectors
  <2>2. QED
    BY <1>5, <2>1 DEF NextStorage
<1>9. QED
  BY <1>6, <1>7, <1>8

\* The facets with selectors are those that serve some.
LEMMA ServingMeans ==
  ASSUME NEW X, NEW d \in Sound(X), NEW f \in Facets
  PROVE  d.selectorsOf[f] # <<>> <=> f \in Table!Serving(d.facetOf)
<1>0. d \in DiamondStorage /\ Routed(d) /\ f # None
  BY DiamondAssumption DEF Sound
<1>1. ASSUME d.selectorsOf[f] # <<>>
      PROVE  f \in Table!Serving(d.facetOf)
  <2>1. 1 \in DOMAIN d.selectorsOf[f]
    BY <1>0, <1>1, Types
  <2>2. PICK s \in Selectors : d.facetOf[s] = f
    BY <1>0, <2>1, RoutedAt
  <2>3. QED
    BY <1>0, <2>2 DEF Table!Serving
<1>2. ASSUME f \in Table!Serving(d.facetOf)
      PROVE  d.selectorsOf[f] # <<>>
  <2>1. PICK s \in Selectors : d.facetOf[s] = f
    BY <1>2 DEF Table!Serving
  <2>2. d.position[s] + 1 \in DOMAIN d.selectorsOf[f]
    BY <1>0, <2>1 DEF Routed
  <2>3. QED
    BY <2>2
<1>3. QED
  BY <1>1, <1>2

\* All the selectors of a cut may be changed exactly when the table allows it.
LEMMA AllowedMeans ==
  ASSUME NEW cut \in Fitting, NEW t
  PROVE  Table!BatchAllowed(t, cut)
           <=> /\ AllowedTo(t, cut, Len(cut.selectors))
               /\ cut.facet \in Table!Serving(t) \cup HasCode \cup {None}
<1> PICK q : q = cut.selectors
  OBVIOUS
<1> PICK n : n = Len(q)
  OBVIOUS
<1>0. /\ q = cut.selectors /\ n = Len(cut.selectors) /\ n \in Nat \ {0}
      /\ DOMAIN q = 1 .. n /\ q # <<>> /\ 1 \in 1 .. n
  BY CutSelectors DEF Fitting
<1>1. PICK old : old = {t[s] : s \in ToSet(q)}
  OBVIOUS
<1>2. \A z : z \in old <=> \E j \in 1 .. n : z = t[q[j]]
  BY <1>0, <1>1 DEF ToSet
<1>3. IsInjective(q) <=> \A j, k \in 1 .. n : q[j] = q[k] => j = k
  BY <1>0 DEF IsInjective
<1>4. /\ old = {None} <=> \A j \in 1 .. n : t[q[j]] = None
      /\ \A S : old \cap S = {} <=> \A j \in 1 .. n : t[q[j]] \notin S
  <2>1. ASSUME old = {None}
        PROVE  \A j \in 1 .. n : t[q[j]] = None
    BY <1>2, <2>1
  <2>2. ASSUME \A j \in 1 .. n : t[q[j]] = None
        PROVE  old = {None}
    <3>1. t[q[1]] \in old
      BY <1>0, <1>2
    <3>2. \A z \in old : z = None
      BY <1>2, <2>2
    <3>3. QED
      BY <1>0, <2>2, <3>1, <3>2
  <2>3. ASSUME NEW S
        PROVE  old \cap S = {} <=> \A j \in 1 .. n : t[q[j]] \notin S
    <3>1. old \cap S = {} <=> \A z : z \in old => z \notin S
      OBVIOUS
    <3>2. QED
      BY <1>2, <3>1
  <2>4. QED
    BY <2>1, <2>2, <2>3
<1>5. /\ cut.action \in {"Add", "Replace", "Remove"}
      /\ cut.facet = None <=> cut.action = "Remove"
  BY DEF Fitting, FacetCut
<1>6. AllowedTo(t, cut, n)
        <=> /\ IsInjective(q)
            /\ \A j \in 1 .. n : May(t, cut, q[j])
  BY <1>0, <1>3 DEF AllowedTo
<1>7. Table!BatchAllowed(t, cut)
        <=> /\ IsInjective(q)
            /\ \/ cut.action = "Add" /\ cut.facet # None /\ old = {None}
               \/ cut.action = "Replace" /\ cut.facet # None
                    /\ old \cap {None, Self, cut.facet} = {}
               \/ cut.action = "Remove" /\ cut.facet = None /\ old \cap {None, Self} = {}
            /\ cut.facet \in Table!Serving(t) \cup HasCode \cup {None}
  <2>1. Table!IsInjective(cut.selectors) <=> IsInjective(q)
    BY <1>0 DEF IsInjective, Table!IsInjective
  <2>2. {t[s] : s \in Table!ToSet(cut.selectors)} = old
    BY <1>0, <1>1 DEF ToSet, Table!ToSet
  <2>3. cut.selectors # <<>>
    BY <1>0
  <2>4. QED
    BY <2>1, <2>2, <2>3, Zenon DEF Table!BatchAllowed
<1>8. (\A j \in 1 .. n : May(t, cut, q[j]))
        <=> \/ cut.action = "Add" /\ cut.facet # None /\ old = {None}
            \/ cut.action = "Replace" /\ cut.facet # None
                 /\ old \cap {None, Self, cut.facet} = {}
            \/ cut.action = "Remove" /\ cut.facet = None /\ old \cap {None, Self} = {}
  <2>1. CASE cut.action = "Add"
    BY <1>4, <1>5, <2>1 DEF May
  <2>2. CASE cut.action = "Replace"
    BY <1>4, <1>5, <2>2 DEF May
  <2>3. CASE cut.action = "Remove"
    BY <1>4, <1>5, <2>3 DEF May
  <2>4. QED
    BY <1>5, <2>1, <2>2, <2>3
<1>9. QED
  BY <1>0, <1>6, <1>7, <1>8

LEMMA AppliedMeans ==
  ASSUME NEW cut \in Fitting, NEW t
  PROVE  Applied(t, cut, Len(cut.selectors)) = Table!AfterBatch(t, cut)
<1>1. \A s : s \in ToSet(cut.selectors)
              <=> \E j \in 1 .. Len(cut.selectors) : cut.selectors[j] = s
  BY CutSelectors DEF ToSet
<1>2. QED
  BY <1>1 DEF Applied, Table!AfterBatch, ToSet, Table!ToSet

\* What precedes the loop.
LEMMA CutStart ==
  ASSUME NEW cut \in Fitting, NEW d \in Sound({}), NEW e,
         e = IF cut.action = "Remove" THEN d ELSE Registered(d, cut.facet)
  PROVE  /\ e # None <=> cut.facet \in Table!Serving(d.facetOf) \cup HasCode \cup {None}
         /\ e # None => e \in Sound(Target(cut)) /\ e.facetOf = d.facetOf
<1>1. CASE cut.action = "Remove"
  <2>1. cut.facet = None /\ Target(cut) = {}
    BY <1>1 DEF Fitting, Target
  <2>2. QED
    BY <1>1, <2>1, StorageIsSome
<1>2. CASE cut.action # "Remove"
  <2>1. PICK f \in Facets : f = cut.facet /\ f # None /\ Target(cut) = {f}
    BY <1>2, CutSelectors DEF Fitting, Target
  <2>2. e = Registered(d, f)
    BY <1>2, <2>1
  <2>3. e # None => e \in Sound({f}) /\ e.facetOf = d.facetOf
    BY <2>2, RegisteredSound
  <2>4. f \in HasCode \/ f \in Table!Serving(d.facetOf) => e # None
    <3>1. CASE d.selectorsOf[f] # <<>>
      BY <2>2, <3>1, StorageIsSome DEF Registered
    <3>2. CASE d.selectorsOf[f] = <<>> /\ f \in HasCode
      <4>1. d \in DiamondStorage
        BY DEF Sound
      <4>2. PICK a, b : /\ a = [d.facetPosition EXCEPT ![f] = Len(d.facetAddresses)]
                        /\ b = Append(d.facetAddresses, f)
        OBVIOUS
      <4>3. a \in [Facets -> Nat] /\ b \in Seq(HasCode)
        BY <3>2, <4>1, <4>2, Types DEF DiamondStorage
      <4>4. e = [facetOf |-> d.facetOf, position |-> d.position, selectorsOf |-> d.selectorsOf,
                 facetPosition |-> a, facetAddresses |-> b]
        BY <2>2, <3>2, <4>1, <4>2 DEF Registered, DiamondStorage
      <4>5. e \in DiamondStorage
        BY <4>1, <4>3, <4>4 DEF DiamondStorage
      <4>6. QED
        BY <4>5, DiamondAssumption
    <3>3. QED
      BY <3>1, <3>2, ServingMeans
  <2>5. e # None => f \in HasCode \/ f \in Table!Serving(d.facetOf)
    BY <2>2, ServingMeans DEF Registered
  <2>6. QED
    BY <2>1, <2>3, <2>4, <2>5
<1>3. QED
  BY <1>1, <1>2

\* A cut reverts exactly when the table does not allow it, and otherwise
\* changes the routes as it changes the table, leaving the indices inverse.
LEMMA CutStep ==
  ASSUME NEW cut \in FacetCut, NEW d \in Sound({}), NEW e, e = ApplyCut(d, cut)
  PROVE  /\ e # None <=> Table!BatchAllowed(d.facetOf, cut)
         /\ e # None => e \in Sound({}) /\ e.facetOf = Table!AfterBatch(d.facetOf, cut)
<1>1. CASE cut \notin Fitting
  <2>1. e = None
    BY <1>1 DEF ApplyCut, Fitting
  <2>2. ~Table!BatchAllowed(d.facetOf, cut)
    BY <1>1 DEF Table!BatchAllowed, Fitting, FacetCut
  <2>3. QED
    BY <2>1, <2>2
<1>2. CASE cut \in Fitting
  <2>1. PICK start : start = IF cut.action = "Remove" THEN d ELSE Registered(d, cut.facet)
    OBVIOUS
  <2>2. /\ start # None <=> cut.facet \in Table!Serving(d.facetOf) \cup HasCode \cup {None}
        /\ start # None => start \in Sound(Target(cut)) /\ start.facetOf = d.facetOf
    BY <1>2, <2>1, CutStart
  <2>3. e = AfterSelectors(start, cut)
    BY <1>2, <2>1 DEF ApplyCut, Fitting
  <2>4. PICK t, n : t = d.facetOf /\ n = Len(cut.selectors)
    OBVIOUS
  <2>5. n \in Nat \ {0} /\ t \in [Selectors -> Facets \cup {None}]
    BY <1>2, <2>4, CutSelectors DEF Sound, DiamondStorage
  <2>6. PICK w : /\ w[0] = start /\ w[n] = e
                 /\ \A i \in 1 .. n : w[i] = NextStorage(w[i - 1], cut, cut.selectors[i])
    BY <1>2, <2>3, <2>4, SelectorsRun
  <2>7. CASE start = None
    <3>1. w[0] \in {None}
      BY <2>6, <2>7
    <3>2. \A i \in 1 .. n : w[i - 1] \in {None} => w[i] \in {None}
      BY <2>6 DEF NextStorage
    <3>3. w[n] \in {None}
      BY <2>5, <3>1, <3>2, RunKeeps
    <3>4. ~Table!BatchAllowed(d.facetOf, cut)
      BY <1>2, <2>2, <2>7, AllowedMeans
    <3>5. QED
      BY <2>6, <3>3, <3>4
  <2>8. CASE start # None
    <3> DEFINE X == [i \in 0 .. n |-> Loop(t, cut, i)]
    <3>1. w[0] \in X[0]
      <4>1. AllowedTo(t, cut, 0) /\ Applied(t, cut, 0) = t
        BY <2>5 DEF AllowedTo, Applied
      <4>2. w[0] \in Loop(t, cut, 0)
        BY <2>2, <2>4, <2>6, <2>8, <4>1 DEF Loop
      <4>3. QED
        BY <2>5, <4>2
    <3>2. ASSUME NEW i \in 1 .. n, w[i - 1] \in X[i - 1]
          PROVE  w[i] \in X[i]
      <4>1. i - 1 \in 0 .. n /\ i \in 0 .. n
        BY <2>5
      <4>2. w[i - 1] \in Loop(t, cut, i - 1)
        BY <3>2, <4>1
      <4>3. w[i] \in Loop(t, cut, i)
        BY <1>2, <2>4, <2>6, <4>2, LoopStep
      <4>4. QED
        BY <4>1, <4>3
    <3>3. n \in 0 .. n
      BY <2>5
    <3> HIDE DEF X
    <3>4. w[n] \in X[n]
      BY <2>5, <3>1, <3>2, RunFollows
    <3>5. e \in Loop(t, cut, n)
      BY <2>6, <3>3, <3>4 DEF X
    <3>6. e # None <=> Table!BatchAllowed(t, cut)
      BY <1>2, <2>2, <2>4, <2>8, <3>5, AllowedMeans DEF Loop
    <3>7. ASSUME e # None
          PROVE  e \in Sound({}) /\ e.facetOf = Table!AfterBatch(t, cut)
      <4>1. /\ e \in Sound(Target(cut)) /\ e.facetOf = Table!AfterBatch(t, cut)
            /\ cut.facet # None => e.selectorsOf[cut.facet] # <<>>
        BY <1>2, <2>4, <2>5, <3>5, <3>7, AppliedMeans DEF Loop
      <4>2. Target(cut) \subseteq {f \in Facets : e.selectorsOf[f] # <<>>}
        BY <1>2, <4>1, CutSelectors DEF Target
      <4>3. Listed(e, {})
        BY <4>1, <4>2 DEF Sound, Listed
      <4>4. QED
        BY <4>1, <4>3 DEF Sound
    <3>8. QED
      BY <2>4, <3>6, <3>7
  <2>9. QED
    BY <2>7, <2>8
<1>3. QED
  BY <1>1, <1>2

-----------------------------------------------------------------------------
(***************************************************************************)
(* An array of cuts.                                                       *)
(***************************************************************************)
NextCut(d, cut) == IF d = None THEN None ELSE ApplyCut(d, cut)

\* The storages between the cuts of one array.
LEMMA CutsRun ==
  ASSUME NEW d, NEW cuts \in Seq(FacetCut)
  PROVE  \E w : /\ w[0] = d /\ w[Len(cuts)] = AfterCuts(d, cuts)
                /\ \A i \in 1 .. Len(cuts) : w[i] = NextCut(w[i - 1], cuts[i])
<1> DEFINE Runs(w, k) == w = [i \in 0 .. k |->
             IF i = 0 THEN d ELSE IF w[i - 1] = None THEN None ELSE ApplyCut(w[i - 1], cuts[i])]
           T == {k \in Nat : \E w : Runs(w, k)}
<1>0. Len(cuts) \in Nat
  OBVIOUS
<1>1. 0 \in T
  <2>1. Runs([i \in 0 .. 0 |-> d], 0)
    OBVIOUS
  <2>2. QED
    BY <2>1
<1>2. ASSUME NEW k \in Nat, k \in T
      PROVE  k + 1 \in T
  <2>1. PICK w : Runs(w, k)
    BY <1>2
  <2> DEFINE u == [i \in 0 .. k + 1 |-> IF i = k + 1 THEN NextCut(w[k], cuts[i]) ELSE w[i]]
  <2>2. \A i \in 0 .. k + 1 :
          u[i] = IF i = 0 THEN d
                 ELSE IF u[i - 1] = None THEN None ELSE ApplyCut(u[i - 1], cuts[i])
    BY <2>1 DEF NextCut
  <2>3. Runs(u, k + 1)
    BY <2>2
  <2> HIDE DEF u
  <2>4. \E z : Runs(z, k + 1)
    BY <2>3
  <2>5. QED
    BY <2>4
<1> HIDE DEF T
<1>3. Len(cuts) \in T
  BY <1>0, <1>1, <1>2, AllNaturals
<1>4. \E w : Runs(w, Len(cuts))
  BY <1>3 DEF T
<1> DEFINE storage == CHOOSE w : Runs(w, Len(cuts))
<1>5. Runs(storage, Len(cuts))
  BY <1>4
<1>6. AfterCuts(d, cuts) = storage[Len(cuts)]
  BY DEF AfterCuts
<1> HIDE DEF storage
<1>7. storage[0] = d
  BY <1>0, <1>5
<1>8. ASSUME NEW i \in 1 .. Len(cuts)
      PROVE  storage[i] = NextCut(storage[i - 1], cuts[i])
  <2>1. i \in 0 .. Len(cuts) /\ i # 0
    BY <1>0
  <2>2. QED
    BY <1>5, <2>1 DEF NextCut
<1>9. QED
  BY <1>6, <1>7, <1>8

\* The routes of a table that lead to the diamond itself are those of another.
KeepsSelf(t, u) == \A s \in Selectors : t[s] = Self => u[s] = Self

LEMMA BatchKeepsSelf ==
  ASSUME NEW t, NEW cut, Table!BatchAllowed(t, cut)
  PROVE  KeepsSelf(t, Table!AfterBatch(t, cut))
<1>1. Self # None
  BY DiamondAssumption
<1>2. ASSUME NEW s \in Selectors, t[s] = Self, s \in Table!ToSet(cut.selectors)
      PROVE  FALSE
  <2>1. Self \in {t[z] : z \in Table!ToSet(cut.selectors)}
    BY <1>2
  <2>2. QED
    BY <1>1, <2>1 DEF Table!BatchAllowed
<1>3. QED
  BY <1>2 DEF KeepsSelf, Table!AfterBatch

\* Cuts that do not revert leave the indices inverse, and the diamond's own
\* functions where they are.
LEMMA CutsSound ==
  ASSUME NEW d \in Sound({}), NEW cuts \in Seq(FacetCut),
         NEW e, e = AfterCuts(d, cuts), e # None
  PROVE  e \in Sound({}) /\ KeepsSelf(d.facetOf, e.facetOf)
<1> DEFINE X == {x \in Sound({}) : KeepsSelf(d.facetOf, x.facetOf)} \cup {None}
<1>0. PICK n \in Nat : n = Len(cuts)
  OBVIOUS
<1>1. PICK w : /\ w[0] = d /\ w[n] = e
               /\ \A i \in 1 .. n : w[i] = NextCut(w[i - 1], cuts[i])
  BY <1>0, CutsRun
<1>2. w[0] \in X
  BY <1>1 DEF KeepsSelf
<1>3. ASSUME NEW i \in 1 .. n, w[i - 1] \in X
      PROVE  w[i] \in X
  <2>1. PICK cut \in FacetCut : cut = cuts[i]
    BY <1>0
  <2>2. PICK x, y : x = w[i - 1] /\ y = w[i]
    OBVIOUS
  <2>3. y = NextCut(x, cut)
    BY <1>1, <2>1, <2>2
  <2>4. CASE x = None
    BY <2>2, <2>3, <2>4 DEF NextCut
  <2>5. CASE x # None
    <3>1. x \in Sound({}) /\ KeepsSelf(d.facetOf, x.facetOf) /\ y = ApplyCut(x, cut)
      BY <1>3, <2>2, <2>3, <2>5 DEF NextCut
    <3>2. y # None => /\ y \in Sound({}) /\ y.facetOf = Table!AfterBatch(x.facetOf, cut)
                      /\ Table!BatchAllowed(x.facetOf, cut)
      BY <3>1, CutStep
    <3>3. y # None => KeepsSelf(d.facetOf, y.facetOf)
      BY <3>1, <3>2, BatchKeepsSelf DEF KeepsSelf
    <3>4. QED
      BY <2>2, <3>2, <3>3
  <2>6. QED
    BY <2>4, <2>5
<1> HIDE DEF X
<1>4. w[n] \in X
  BY <1>2, <1>3, RunKeeps
<1>5. QED
  BY <1>1, <1>4 DEF X

-----------------------------------------------------------------------------
(***************************************************************************)
(* The cuts of a deployment are cuts.                                      *)
(***************************************************************************)
\* What Those keeps of a sequence: the members in S, each as often as before.
LEMMA ThoseKept ==
  ASSUME NEW R, NEW q \in Seq(R), NEW S, NEW r, r = Those(q, S)
  PROVE  /\ r \in Seq(R)
         /\ ToSet(r) = ToSet(q) \cap S
         /\ IsInjective(q) => IsInjective(r)
<1> PICK n \in Nat : n = Len(q)
  OBVIOUS
<1>0. n = Len(q) /\ DOMAIN q = 1 .. n /\ \A i \in 1 .. n : q[i] \in R
  OBVIOUS
<1> DEFINE Runs(w, k) == w = [i \in 0 .. k |->
             IF i = 0 THEN <<>> ELSE IF q[i] \in S THEN Append(w[i - 1], q[i]) ELSE w[i - 1]]
           T == {k \in Nat : \E w : Runs(w, k)}
<1>1. 0 \in T
  <2>1. Runs([i \in 0 .. 0 |-> <<>>], 0)
    OBVIOUS
  <2>2. QED
    BY <2>1
<1>2. ASSUME NEW k \in Nat, k \in T
      PROVE  k + 1 \in T
  <2>1. PICK w : Runs(w, k)
    BY <1>2
  <2> PICK z : z = IF q[k + 1] \in S THEN Append(w[k], q[k + 1]) ELSE w[k]
    OBVIOUS
  <2> DEFINE u == [i \in 0 .. k + 1 |-> IF i = k + 1 THEN z ELSE w[i]]
  <2>2. ASSUME NEW i \in 0 .. k + 1
        PROVE  u[i] = IF i = 0 THEN <<>>
                      ELSE IF q[i] \in S THEN Append(u[i - 1], q[i]) ELSE u[i - 1]
    <3>1. CASE i = k + 1
      <4>1. u[i] = z /\ u[i - 1] = w[k] /\ i # 0
        BY <3>1
      <4>2. QED
        BY <3>1, <4>1
    <3>2. CASE i = 0
      BY <2>1, <3>2
    <3>3. CASE i # k + 1 /\ i # 0
      <4>1. u[i] = w[i] /\ u[i - 1] = w[i - 1] /\ i \in 0 .. k
        BY <3>3
      <4>2. w[i] = IF q[i] \in S THEN Append(w[i - 1], q[i]) ELSE w[i - 1]
        BY <2>1, <3>3, <4>1
      <4>3. QED
        BY <3>3, <4>1, <4>2
    <3>4. QED
      BY <3>1, <3>2, <3>3
  <2>3. Runs(u, k + 1)
    BY <2>2
  <2> HIDE DEF u
  <2> HIDE DEF Runs
  <2>4. QED
    BY <2>3
<1> HIDE DEF T
<1>3. n \in T
  BY <1>1, <1>2, AllNaturals
<1>4. \E w : Runs(w, n)
  BY <1>3 DEF T
<1> DEFINE taken == CHOOSE w : Runs(w, n)
<1>5. Runs(taken, n)
  BY <1>4
<1>6. r = taken[n]
  BY <1>0 DEF Those
<1> HIDE DEF taken
<1>7. /\ taken[0] = <<>>
      /\ \A i \in 1 .. n : taken[i] = IF q[i] \in S THEN Append(taken[i - 1], q[i]) ELSE taken[i - 1]
  <2>1. taken[0] = <<>>
    BY <1>5
  <2>2. ASSUME NEW i \in 1 .. n
        PROVE  taken[i] = IF q[i] \in S THEN Append(taken[i - 1], q[i]) ELSE taken[i - 1]
    <3>1. i \in 0 .. n /\ i # 0
      OBVIOUS
    <3>2. QED
      BY <1>5, <3>1
  <2>3. QED
    BY <2>1, <2>2
<1> DEFINE First(i) == {q[j] : j \in 1 .. i}
           X == [i \in 0 .. n |-> {x \in Seq(R) :
                   ToSet(x) = First(i) \cap S /\ (IsInjective(q) => IsInjective(x))}]
<1>8. taken[0] \in X[0]
  <2>1. First(0) = {}
    OBVIOUS
  <2>2. ToSet(<<>>) = {} /\ IsInjective(<<>>) /\ <<>> \in Seq(R)
    BY DEF ToSet, IsInjective
  <2>3. QED
    BY <1>7, <2>1, <2>2
<1>9. ASSUME NEW i \in 1 .. n, taken[i - 1] \in X[i - 1]
      PROVE  taken[i] \in X[i]
  <2>1. i - 1 \in 0 .. n /\ i \in 0 .. n
    OBVIOUS
  <2>2. PICK x \in Seq(R) : /\ x = taken[i - 1] /\ ToSet(x) = First(i - 1) \cap S
                            /\ IsInjective(q) => IsInjective(x)
    BY <1>9, <2>1
  <2>3. PICK s \in R : s = q[i]
    BY <1>0
  <2>4. First(i) = First(i - 1) \cup {s}
    <3>1. 1 .. i = (1 .. i - 1) \cup {i}
      OBVIOUS
    <3>2. QED
      BY <2>3, <3>1
  <2>5. CASE s \in S
    <3>1. taken[i] = Append(x, s)
      BY <1>7, <2>2, <2>3, <2>5
    <3>2. PICK m \in Nat : m = Len(x) /\ DOMAIN x = 1 .. m
      OBVIOUS
    <3>3. PICK y : y = Append(x, s)
      OBVIOUS
    <3> HIDE DEF X
    <3>7. /\ y \in Seq(R) /\ DOMAIN y = 1 .. m + 1 /\ y[m + 1] = s
          /\ \A j \in 1 .. m : y[j] = x[j]
      BY <3>2, <3>3
    <3>4. ToSet(y) = ToSet(x) \cup {s}
      BY <3>2, <3>7 DEF ToSet
    <3>5. ASSUME IsInjective(q)
          PROVE  IsInjective(y)
      <4>1. s \notin First(i - 1)
        BY <1>0, <2>3, <3>5 DEF IsInjective
      <4>2. \A j \in 1 .. m : x[j] # s
        BY <2>2, <3>2, <4>1 DEF ToSet
      <4>3. \A j, k \in 1 .. m : x[j] = x[k] => j = k
        BY <2>2, <3>2, <3>5 DEF IsInjective
      <4>4. \A j, k \in 1 .. m + 1 : y[j] = y[k] => j = k
        BY <3>7, <4>2, <4>3
      <4>5. QED
        BY <3>7, <4>4 DEF IsInjective
    <3>6. QED
      BY <2>1, <2>2, <2>4, <2>5, <3>1, <3>3, <3>4, <3>5, <3>7 DEF X
  <2>6. CASE s \notin S
    <3>1. taken[i] = x
      BY <1>7, <2>2, <2>3, <2>6
    <3>2. QED
      BY <2>1, <2>2, <2>4, <2>6, <3>1
  <2>7. QED
    BY <2>5, <2>6
<1>10. X[n] = {x \in Seq(R) : ToSet(x) = First(n) \cap S /\ (IsInjective(q) => IsInjective(x))}
  OBVIOUS
<1> HIDE DEF X
<1>11. taken[n] \in X[n]
  BY <1>8, <1>9, RunFollows
<1>12. First(n) = ToSet(q)
  BY <1>0 DEF ToSet
<1>13. QED
  BY <1>6, <1>10, <1>11, <1>12

\* A facet's array has the selectors routed to it, each once, and the list of
\* facets has a facet once.
LEMMA Hosted ==
  ASSUME NEW X, NEW d \in Sound(X)
  PROVE  /\ \A f \in Facets : /\ ToSet(d.selectorsOf[f]) = {s \in Selectors : d.facetOf[s] = f}
                              /\ IsInjective(d.selectorsOf[f])
         /\ IsInjective(d.facetAddresses)
<1>0. d \in DiamondStorage /\ Routed(d) /\ Listed(d, X)
  BY DEF Sound
<1>1. ASSUME NEW f \in Facets
      PROVE  /\ ToSet(d.selectorsOf[f]) = {s \in Selectors : d.facetOf[s] = f}
             /\ IsInjective(d.selectorsOf[f])
  <2>1. PICK q : q = d.selectorsOf[f]
    OBVIOUS
  <2>2. \A i \in DOMAIN q : /\ q[i] \in Selectors /\ d.facetOf[q[i]] = f
                            /\ d.position[q[i]] = i - 1 /\ i \in Nat
    BY <1>0, <2>1, Types, RoutedAt
  <2>3. \A s \in Selectors : d.facetOf[s] = f => \E i \in DOMAIN q : q[i] = s
    BY <1>0, <2>1, DiamondAssumption DEF Routed
  <2>4. ToSet(q) = {s \in Selectors : d.facetOf[s] = f}
    BY <2>2, <2>3 DEF ToSet
  <2>5. \A i, j \in DOMAIN q : q[i] = q[j] => i = j
    BY <2>2
  <2>6. QED
    BY <2>1, <2>4, <2>5 DEF IsInjective
<1>2. IsInjective(d.facetAddresses)
  <2>1. PICK a, b : a = d.facetAddresses /\ b = d.facetPosition
    OBVIOUS
  <2>2. \A i \in DOMAIN a : i \in Nat /\ b[a[i]] = i - 1
    BY <1>0, <2>1, Types DEF Listed
  <2>3. \A i, j \in DOMAIN a : a[i] = a[j] => i = j
    BY <2>2
  <2>4. QED
    BY <2>1, <2>3 DEF IsInjective
<1>3. QED
  BY <1>1, <1>2

\* What facets() returns, selector by selector.
LEMMA ExistingMeans ==
  ASSUME NEW d \in Sound({}), NEW e,
         e = FlattenSeq([i \in DOMAIN LoupeFacets(d) |-> LoupeFacets(d)[i].selectors])
  PROVE  /\ e \in Seq(Selectors) /\ IsInjective(e)
         /\ ToSet(e) = {s \in Selectors : d.facetOf[s] # None}
<1>0. d \in DiamondStorage /\ Routed(d) /\ Listed(d, {})
  BY DEF Sound
<1>1. PICK a : a = d.facetAddresses
  OBVIOUS
<1>2. PICK n \in Nat : n = Len(a) /\ DOMAIN a = 1 .. n /\ \A i \in 1 .. n : a[i] \in Facets
  BY <1>0, <1>1, Types
<1>3. PICK p : p = [i \in 1 .. n |-> d.selectorsOf[a[i]]]
  OBVIOUS
<1>4. e = FlattenSeq(p)
  BY <1>1, <1>2, <1>3 DEF LoupeFacets
<1>5. \A i \in 1 .. n : d.selectorsOf[a[i]] \in Seq(Selectors)
  BY <1>0, <1>2, Types
<1>6. p \in [1 .. n -> Seq(Selectors)] /\ \A i \in 1 .. n : p[i] = d.selectorsOf[a[i]]
  BY <1>3, <1>5
<1>7. PICK w : /\ w[0] = <<>> /\ w[n] = e
               /\ \A i \in 1 .. n : w[i] = w[i - 1] \o p[i]
  <2>1. p \in [1 .. n -> Seq(Selectors)]
    BY <1>6
  <2>2. \E w : /\ w[0] = <<>> /\ w[n] = FlattenSeq(p)
               /\ \A i \in 1 .. n : w[i] = w[i - 1] \o p[i]
    BY <2>1, FlattenRun, Zenon
  <2>3. QED
    BY <1>4, <2>2, Zenon
<1> DEFINE First(i) == {s \in Selectors : \E j \in 1 .. i : d.facetOf[s] = a[j]}
           Part(i) == {q \in Seq(Selectors) : IsInjective(q) /\ ToSet(q) = First(i)}
           X == [i \in 0 .. n |-> Part(i)]
<1>8. w[0] \in X[0]
  <2>1. First(0) = {}
    OBVIOUS
  <2>2. ToSet(<<>>) = {} /\ IsInjective(<<>>) /\ <<>> \in Seq(Selectors)
    BY DEF ToSet, IsInjective
  <2>3. QED
    BY <1>7, <2>1, <2>2
<1>9. ASSUME NEW i \in 1 .. n, w[i - 1] \in X[i - 1]
      PROVE  w[i] \in X[i]
  <2>1. i - 1 \in 0 .. n /\ i \in 0 .. n
    OBVIOUS
  <2>2. PICK q \in Seq(Selectors) : q = w[i - 1] /\ IsInjective(q) /\ ToSet(q) = First(i - 1)
    BY <1>9, <2>1
  <2>3. PICK r \in Seq(Selectors) : r = p[i]
    BY <1>6
  <2>4. /\ ToSet(r) = {s \in Selectors : d.facetOf[s] = a[i]} /\ IsInjective(r)
        /\ IsInjective(a)
    BY <1>1, <1>2, <1>6, <2>3, Hosted
  <2>5. \A j \in 1 .. i - 1 : a[j] # a[i]
    BY <1>2, <2>4 DEF IsInjective
  <2>6. ToSet(q) \cap ToSet(r) = {}
    BY <2>2, <2>4, <2>5
  <2>7. First(i) = First(i - 1) \cup ToSet(r)
    <3>1. 1 .. i = (1 .. i - 1) \cup {i}
      OBVIOUS
    <3>2. QED
      BY <2>4, <3>1
  <2>8. w[i] = q \o r
    BY <1>7, <2>2, <2>3
  <2> HIDE DEF First
  <2>9. w[i] \in Part(i)
    BY <2>2, <2>4, <2>6, <2>7, <2>8, Concatenated
  <2>10. QED
    BY <2>1, <2>9
<1>10. X[n] = Part(n)
  OBVIOUS
<1> HIDE DEF X
<1>11. e \in Part(n)
  BY <1>7, <1>8, <1>9, <1>10, RunFollows
<1>12. First(n) = {s \in Selectors : d.facetOf[s] # None}
  <2>1. ASSUME NEW s \in Selectors, d.facetOf[s] # None
        PROVE  \E j \in 1 .. n : d.facetOf[s] = a[j]
    <3>1. d.facetOf[s] \in Facets /\ d.selectorsOf[d.facetOf[s]] # <<>>
      BY <1>0, <2>1, Types DEF Routed
    <3>2. d.facetOf[s] \in ToSet(a)
      BY <1>0, <1>1, <3>1 DEF Listed
    <3>3. QED
      BY <1>2, <3>2 DEF ToSet
  <2>2. QED
    BY <1>2, <2>1, DiamondAssumption
<1>13. QED
  BY <1>11, <1>12

\* What facets() returns is the table of routes.
LEMMA LoupeMeans ==
  ASSUME NEW d \in Sound({})
  PROVE  LoupeTable(d) = d.facetOf
<1>0. d \in DiamondStorage /\ Routed(d) /\ Listed(d, {})
  BY DEF Sound
<1>1. PICK a : a = d.facetAddresses
  OBVIOUS
<1>2. PICK n \in Nat : n = Len(a) /\ DOMAIN a = 1 .. n /\ \A i \in 1 .. n : a[i] \in Facets
  BY <1>0, <1>1, Types
<1>3. ToSet(LoupeFacets(d)) = {[facet |-> a[i], selectors |-> d.selectorsOf[a[i]]] : i \in 1 .. n}
  BY <1>1, <1>2 DEF LoupeFacets, ToSet
<1>4. ToSet(a) = {f \in Facets : d.selectorsOf[f] # <<>>}
  BY <1>0, <1>1 DEF Listed
<1>5. \A f \in Facets : ToSet(d.selectorsOf[f]) = {s \in Selectors : d.facetOf[s] = f}
  BY Hosted
<1>6. ASSUME NEW s \in Selectors, NEW hosts,
             hosts = {f \in ToSet(LoupeFacets(d)) : s \in ToSet(f.selectors)}
      PROVE  /\ hosts = {} <=> d.facetOf[s] = None
             /\ \A f \in hosts : f.facet = d.facetOf[s]
  <2>1. ASSUME NEW f \in hosts
        PROVE  f.facet = d.facetOf[s] /\ d.facetOf[s] # None
    <3>1. PICK i \in 1 .. n : f = [facet |-> a[i], selectors |-> d.selectorsOf[a[i]]]
      BY <1>3, <1>6
    <3>2. s \in ToSet(d.selectorsOf[a[i]]) /\ f.facet = a[i]
      BY <1>6, <3>1
    <3>3. QED
      BY <1>2, <1>5, <3>2, DiamondAssumption
  <2>2. ASSUME d.facetOf[s] # None
        PROVE  hosts # {}
    <3>1. PICK g \in Facets : g = d.facetOf[s] /\ d.selectorsOf[g] # <<>>
      BY <1>0, <2>2, Types DEF Routed
    <3>2. PICK i \in 1 .. n : a[i] = g
      BY <1>2, <1>4, <3>1 DEF ToSet
    <3>3. PICK f : f = [facet |-> a[i], selectors |-> d.selectorsOf[a[i]]]
      OBVIOUS
    <3>4. f \in ToSet(LoupeFacets(d)) /\ f.selectors = d.selectorsOf[g]
      BY <1>3, <3>2, <3>3
    <3>5. s \in ToSet(f.selectors)
      BY <1>5, <3>1, <3>4
    <3>6. QED
      BY <1>6, <3>4, <3>5
  <2>3. QED
    BY <2>1, <2>2
<1>7. ASSUME NEW s \in Selectors
      PROVE  LoupeTable(d)[s] = d.facetOf[s]
  <2>1. PICK hosts : hosts = {f \in ToSet(LoupeFacets(d)) : s \in ToSet(f.selectors)}
    OBVIOUS
  <2>2. LoupeTable(d)[s] = IF hosts = {} THEN None ELSE (CHOOSE f \in hosts : TRUE).facet
    BY <2>1 DEF LoupeTable
  <2>3. CASE hosts = {}
    BY <1>6, <2>1, <2>2, <2>3
  <2>4. CASE hosts # {}
    <3>1. (CHOOSE f \in hosts : TRUE) \in hosts
      BY <2>4
    <3>2. QED
      BY <1>6, <2>1, <2>2, <2>4, <3>1
  <2>5. QED
    BY <2>3, <2>4
<1>8. LoupeTable(d) = [s \in Selectors |-> LoupeTable(d)[s]]
  BY DEF LoupeTable
<1>9. d.facetOf = [s \in Selectors |-> d.facetOf[s]]
  BY <1>0, Types DEF DiamondStorage
<1>10. QED
  BY <1>7, <1>8, <1>9

LEMMA CutOfMeans ==
  ASSUME NEW f \in Facets \cup {None}, NEW action \in {"Add", "Replace", "Remove"},
         NEW q \in Seq(Selectors)
  PROVE  /\ CutOf(f, action, q) \in Seq(FacetCut)
         /\ Len(CutOf(f, action, q)) = IF q = <<>> THEN 0 ELSE 1
         /\ q # <<>> => CutOf(f, action, q)[1] = [facet |-> f, action |-> action, selectors |-> q]
<1>1. PICK c : c = [facet |-> f, action |-> action, selectors |-> q]
  OBVIOUS
<1>2. c \in FacetCut
  BY <1>1 DEF FacetCut
<1>3. CutOf(f, action, q) = IF q = <<>> THEN <<>> ELSE <<c>>
  BY <1>1 DEF CutOf
<1>4. <<>> \in Seq(FacetCut) /\ Len(<<>>) = 0
  OBVIOUS
<1>5. <<c>> \in Seq(FacetCut) /\ Len(<<c>>) = 1 /\ <<c>>[1] = c
  BY <1>2
<1>6. QED
  BY <1>1, <1>3, <1>4, <1>5

\* The cuts for one facet are a Replace and an Add, in this order.
LEMMA FacetCutsMeans ==
  ASSUME NEW host, NEW r \in Facet, NEW replaced, NEW added,
         replaced = Those(r.selectors, {s \in Selectors : host[s] \notin {None, r.facet}}),
         added = Those(r.selectors, {s \in Selectors : host[s] = None})
  PROVE  /\ FacetCuts(host, r)
              = CutOf(r.facet, "Replace", replaced) \o CutOf(r.facet, "Add", added)
         /\ replaced \in Seq(Selectors) /\ added \in Seq(Selectors)
         /\ CutOf(r.facet, "Replace", replaced) \in Seq(FacetCut)
         /\ CutOf(r.facet, "Add", added) \in Seq(FacetCut)
<1>1. r.facet \in Facets \cup {None} /\ r.selectors \in Seq(Selectors)
  BY DEF Facet
<1>2. replaced \in Seq(Selectors) /\ added \in Seq(Selectors)
  BY <1>1, ThoseKept
<1>3. FacetCuts(host, r)
        = CutOf(r.facet, "Replace", replaced) \o CutOf(r.facet, "Add", added)
  BY DEF FacetCuts
<1>4. QED
  BY <1>1, <1>2, <1>3, CutOfMeans

LEMMA RemovedMeans ==
  ASSUME NEW d \in Sound({}), NEW release \in Releases, NEW q, q = RemovedSelectors(d, release)
  PROVE  /\ q \in Seq(Selectors) /\ IsInjective(q)
         /\ ToSet(q) = {s \in Selectors : /\ d.facetOf[s] # None /\ s \notin DefaultSelectors
                                          /\ \A i \in DOMAIN release :
                                               s \notin ToSet(release[i].selectors)}
<1>1. PICK e : e = FlattenSeq([i \in DOMAIN LoupeFacets(d) |-> LoupeFacets(d)[i].selectors])
  OBVIOUS
<1>2. PICK released : released = UNION {ToSet(release[i].selectors) : i \in DOMAIN release}
  OBVIOUS
<1>3. q = Those(e, Selectors \ (DefaultSelectors \cup released))
  BY <1>1, <1>2 DEF RemovedSelectors
<1>4. /\ e \in Seq(Selectors) /\ IsInjective(e)
      /\ ToSet(e) = {s \in Selectors : d.facetOf[s] # None}
  BY <1>1, ExistingMeans
<1>5. /\ q \in Seq(Selectors) /\ IsInjective(q)
      /\ ToSet(q) = ToSet(e) \cap (Selectors \ (DefaultSelectors \cup released))
  BY <1>3, <1>4, ThoseKept
<1>6. \A s : s \in released <=> \E i \in DOMAIN release : s \in ToSet(release[i].selectors)
  BY <1>2
<1>7. QED
  BY <1>4, <1>5, <1>6

\* The cuts of a release, facet by facet.
LEMMA DeployRun ==
  ASSUME NEW d, NEW release \in Seq(Facet)
  PROVE  \E w : /\ w[0] = CutOf(None, "Remove", RemovedSelectors(d, release))
                /\ w[Len(release)] = DeployCuts(d, release)
                /\ \A i \in 1 .. Len(release) :
                     w[i] = w[i - 1] \o FacetCuts(LoupeTable(d), release[i])
<1> PICK n \in Nat : n = Len(release)
  OBVIOUS
<1> PICK first : first = CutOf(None, "Remove", RemovedSelectors(d, release))
  OBVIOUS
<1> PICK p : p = [i \in 1 .. n |-> FacetCuts(LoupeTable(d), release[i])]
  OBVIOUS
<1>0. /\ n = Len(release) /\ first = CutOf(None, "Remove", RemovedSelectors(d, release))
      /\ \A i \in 1 .. n : p[i] = FacetCuts(LoupeTable(d), release[i])
  OBVIOUS
<1> DEFINE Runs(w, k) == w = [i \in 0 .. k |->
                                IF i = 0 THEN CutOf(None, "Remove", RemovedSelectors(d, release))
                                ELSE w[i - 1] \o FacetCuts(LoupeTable(d), release[i])]
           T == {k \in Nat : \E w : Runs(w, k)}
<1>1. 0 \in T
  <2>1. Runs([i \in 0 .. 0 |-> first], 0)
    BY <1>0
  <2> HIDE DEF Runs
  <2>2. QED
    BY <2>1
<1>2. ASSUME NEW k \in Nat, k \in T
      PROVE  k + 1 \in T
  <2>1. PICK w : Runs(w, k)
    BY <1>2
  <2> PICK z : z = w[k] \o FacetCuts(LoupeTable(d), release[k + 1])
    OBVIOUS
  <2> DEFINE u == [i \in 0 .. k + 1 |-> IF i = k + 1 THEN z ELSE w[i]]
  <2>2. ASSUME NEW i \in 0 .. k + 1
        PROVE  u[i] = IF i = 0 THEN CutOf(None, "Remove", RemovedSelectors(d, release))
                      ELSE u[i - 1] \o FacetCuts(LoupeTable(d), release[i])
    <3>1. CASE i = k + 1
      <4>1. u[i] = z /\ u[i - 1] = w[k] /\ i # 0
        BY <3>1
      <4>2. QED
        BY <3>1, <4>1
    <3>2. CASE i = 0
      BY <2>1, <3>2
    <3>3. CASE i # k + 1 /\ i # 0
      <4>1. u[i] = w[i] /\ u[i - 1] = w[i - 1] /\ i \in 0 .. k
        BY <3>3
      <4>2. w[i] = w[i - 1] \o FacetCuts(LoupeTable(d), release[i])
        BY <2>1, <3>3, <4>1
      <4>3. QED
        BY <3>3, <4>1, <4>2
    <3>4. QED
      BY <3>1, <3>2, <3>3
  <2>3. Runs(u, k + 1)
    BY <2>2
  <2> HIDE DEF u
  <2> HIDE DEF Runs
  <2>4. QED
    BY <2>3
<1> HIDE DEF T
<1>3. n \in T
  BY <1>1, <1>2, AllNaturals
<1>4. \E w : Runs(w, n)
  BY <1>3 DEF T
<1> DEFINE cuts == CHOOSE w : Runs(w, n)
<1>5. Runs(cuts, n)
  BY <1>4
<1>6. DeployCuts(d, release) = cuts[n]
  BY <1>0 DEF DeployCuts
<1> HIDE DEF cuts
<1>7. cuts[0] = CutOf(None, "Remove", RemovedSelectors(d, release))
  BY <1>5
<1>8. ASSUME NEW i \in 1 .. n
      PROVE  cuts[i] = cuts[i - 1] \o FacetCuts(LoupeTable(d), release[i])
  <2>1. i \in 0 .. n /\ i # 0
    OBVIOUS
  <2>2. QED
    BY <1>5, <2>1
<1>9. QED
  BY <1>0, <1>6, <1>7, <1>8

LEMMA DeployTyped ==
  ASSUME NEW d \in Sound({}), NEW release \in Releases
  PROVE  DeployCuts(d, release) \in Seq(FacetCut)
<1>0. PICK n \in Nat : n = Len(release) /\ release \in Seq(Facet)
  BY DiamondAssumption
<1>1. PICK w : /\ w[0] = CutOf(None, "Remove", RemovedSelectors(d, release))
               /\ w[n] = DeployCuts(d, release)
               /\ \A i \in 1 .. n : w[i] = w[i - 1] \o FacetCuts(LoupeTable(d), release[i])
  BY <1>0, DeployRun
<1>2. w[0] \in Seq(FacetCut)
  <2>1. PICK q : q = RemovedSelectors(d, release)
    OBVIOUS
  <2>2. q \in Seq(Selectors)
    BY <2>1, RemovedMeans
  <2>3. CutOf(None, "Remove", q) \in Seq(FacetCut)
    BY <2>2, CutOfMeans
  <2>4. QED
    BY <1>1, <2>1, <2>3
<1>3. ASSUME NEW i \in 1 .. n, w[i - 1] \in Seq(FacetCut)
      PROVE  w[i] \in Seq(FacetCut)
  <2>1. PICK r \in Facet : r = release[i]
    BY <1>0
  <2>2. PICK x, y : /\ x = CutOf(r.facet, "Replace", Those(r.selectors,
                              {s \in Selectors : LoupeTable(d)[s] \notin {None, r.facet}}))
                    /\ y = CutOf(r.facet, "Add", Those(r.selectors,
                              {s \in Selectors : LoupeTable(d)[s] = None}))
    OBVIOUS
  <2>3. x \in Seq(FacetCut) /\ y \in Seq(FacetCut) /\ FacetCuts(LoupeTable(d), r) = x \o y
    BY <2>2, FacetCutsMeans
  <2>4. w[i] = w[i - 1] \o (x \o y)
    BY <1>1, <2>1, <2>3
  <2>5. QED
    BY <1>3, <2>3, <2>4
<1>4. w[n] \in Seq(FacetCut)
  BY <1>2, <1>3, RunKeeps
<1>5. QED
  BY <1>1, <1>4

-----------------------------------------------------------------------------
(***************************************************************************)
(* What the cuts of a deployment do, one after the other.                  *)
(***************************************************************************)
LEMMA CutsEmpty == \A d : AfterCuts(d, <<>>) = d
<1>1. ASSUME NEW d
      PROVE  AfterCuts(d, <<>>) = d
  <2>1. <<>> \in Seq(FacetCut) /\ Len(<<>>) = 0
    OBVIOUS
  <2>2. PICK w : w[0] = d /\ w[Len(<<>>)] = AfterCuts(d, <<>>)
    BY <2>1, CutsRun
  <2>3. QED
    BY <2>1, <2>2
<1>2. QED
  BY <1>1

LEMMA CutsAppended ==
  ASSUME NEW d, NEW cuts \in Seq(FacetCut), NEW cut \in FacetCut
  PROVE  AfterCuts(d, Append(cuts, cut)) = NextCut(AfterCuts(d, cuts), cut)
<1>0. PICK n \in Nat : n = Len(cuts)
  OBVIOUS
<1>1. PICK all : all = Append(cuts, cut)
  OBVIOUS
<1>2. /\ all \in Seq(FacetCut) /\ Len(all) = n + 1 /\ all[n + 1] = cut
      /\ \A i \in 1 .. n : all[i] = cuts[i]
  BY <1>0, <1>1
<1>3. PICK w : /\ w[0] = d /\ w[n + 1] = AfterCuts(d, all)
               /\ \A i \in 1 .. n + 1 : w[i] = NextCut(w[i - 1], all[i])
  <2>1. \E w : /\ w[0] = d /\ w[Len(all)] = AfterCuts(d, all)
               /\ \A i \in 1 .. Len(all) : w[i] = NextCut(w[i - 1], all[i])
    <3>1. all \in Seq(FacetCut)
      BY <1>2
    <3>2. QED
      BY <3>1, CutsRun
  <2>2. QED
    BY <1>2, <2>1
<1>4. PICK u : /\ u[0] = d /\ u[n] = AfterCuts(d, cuts)
               /\ \A i \in 1 .. n : u[i] = NextCut(u[i - 1], cuts[i])
  <2>1. \E u : /\ u[0] = d /\ u[Len(cuts)] = AfterCuts(d, cuts)
               /\ \A i \in 1 .. Len(cuts) : u[i] = NextCut(u[i - 1], cuts[i])
    BY CutsRun
  <2>2. QED
    BY <1>0, <2>1, Zenon
<1> DEFINE X == [i \in 0 .. n |-> {u[i]}]
<1>5. w[0] \in X[0]
  BY <1>3, <1>4
<1>6. ASSUME NEW i \in 1 .. n, w[i - 1] \in X[i - 1]
      PROVE  w[i] \in X[i]
  <2>1. i \in 1 .. n + 1 /\ i \in 0 .. n /\ i - 1 \in 0 .. n
    OBVIOUS
  <2>2. w[i - 1] = u[i - 1]
    BY <1>6, <2>1
  <2>3. w[i] = u[i]
    BY <1>2, <1>3, <1>4, <2>1, <2>2
  <2>4. QED
    BY <2>1, <2>3
<1>7. X[n] = {u[n]}
  OBVIOUS
<1> HIDE DEF X
<1>8. w[n] = u[n]
  BY <1>5, <1>6, <1>7, RunFollows
<1>9. n + 1 \in 1 .. n + 1 /\ (n + 1) - 1 = n
  OBVIOUS
<1>10. w[n + 1] = NextCut(w[n], all[n + 1])
  BY <1>3, <1>9
<1>11. QED
  BY <1>1, <1>2, <1>3, <1>4, <1>8, <1>10

\* A cut that may be left out because it would name no selector.
OneCut(f, action, q) == [facet |-> f, action |-> action, selectors |-> q]
WithCut(cuts, f, action, q) == cuts \o CutOf(f, action, q)

\* The table t with the selectors of q given to f.
Moved(t, q, f) == [s \in Selectors |-> IF s \in ToSet(q) THEN f ELSE t[s]]

\* What comes of it: u is the storage before.
Outcomes(u, f, action, q) ==
  {e \in Sound({}) \cup {None} :
     /\ e # None <=> q = <<>> \/ Table!BatchAllowed(u.facetOf, OneCut(f, action, q))
     /\ e # None => e.facetOf = Moved(u.facetOf, q, f)}

LEMMA CutOfStep ==
  ASSUME NEW d, NEW cuts \in Seq(FacetCut), AfterCuts(d, cuts) \in Sound({}),
         NEW f \in Facets \cup {None}, NEW action \in {"Add", "Replace", "Remove"},
         NEW q \in Seq(Selectors)
  PROVE  AfterCuts(d, WithCut(cuts, f, action, q)) \in Outcomes(AfterCuts(d, cuts), f, action, q)
<1> PICK u \in Sound({}) : u = AfterCuts(d, cuts)
  OBVIOUS
<1> PICK e : e = AfterCuts(d, WithCut(cuts, f, action, q))
  OBVIOUS
<1> SUFFICES e \in Outcomes(u, f, action, q)
  OBVIOUS
<1> PICK cut : cut = [facet |-> f, action |-> action, selectors |-> q] /\ cut = OneCut(f, action, q)
  BY DEF OneCut
<1>1. CASE q = <<>>
  <2>1. CutOf(f, action, q) = <<>>
    BY <1>1 DEF CutOf
  <2>2. cuts \o <<>> = cuts
    OBVIOUS
  <2>3. e = u
    BY <2>1, <2>2 DEF WithCut
  <2>4. ToSet(q) = {}
    BY <1>1 DEF ToSet
  <2>5. Moved(u.facetOf, q, f) = u.facetOf
    <3>1. u.facetOf = [s \in Selectors |-> u.facetOf[s]]
      BY Types DEF Sound, DiamondStorage
    <3>2. QED
      BY <2>4, <3>1 DEF Moved
  <2>6. QED
    BY <1>1, <2>3, <2>5, StorageIsSome DEF Outcomes
<1>2. CASE q # <<>>
  <2>1. cut \in FacetCut
    BY DEF FacetCut
  <2>2. CutOf(f, action, q) = <<cut>>
    BY <1>2 DEF CutOf
  <2>3. cuts \o <<cut>> = Append(cuts, cut)
    BY <2>1
  <2>4. e = NextCut(u, cut)
    BY <2>1, <2>2, <2>3, CutsAppended DEF WithCut
  <2>5. e = ApplyCut(u, cut)
    BY <2>4, StorageIsSome DEF NextCut
  <2>6. /\ e # None <=> Table!BatchAllowed(u.facetOf, cut)
        /\ e # None => e \in Sound({}) /\ e.facetOf = Table!AfterBatch(u.facetOf, cut)
    BY <2>1, <2>5, CutStep
  <2>7. cut.selectors = q /\ cut.facet = f
    OBVIOUS
  <2>8. Table!AfterBatch(u.facetOf, cut) = Moved(u.facetOf, q, f)
    BY <2>7 DEF Table!AfterBatch, Table!ToSet, ToSet, Moved
  <2>9. QED
    BY <1>2, <2>6, <2>8 DEF Outcomes
<1>3. QED
  BY <1>1, <1>2

\* The script may give back to nobody.
Unreleased(t, release, s) ==
  /\ t[s] # None /\ s \notin DefaultSelectors
  /\ \A j \in DOMAIN release : s \notin ToSet(release[j].selectors)

\* The table u once the first i facets of a release are cut in to t.
Reached(t, release, i, u) ==
  \A s \in Selectors :
    /\ \A j \in 1 .. i : s \in ToSet(release[j].selectors) => u[s] = release[j].facet
    /\ (\A j \in 1 .. i : s \notin ToSet(release[j].selectors))
         => u[s] = IF Unreleased(t, release, s) THEN None ELSE t[s]

\* The cuts that get there; only an immutable function may be in their way.
Reaching(d, release, i) ==
  {cuts \in Seq(FacetCut) :
     /\ AfterCuts(d, cuts) = None => Self \in Table!Serving(d.facetOf)
     /\ AfterCuts(d, cuts) # None => /\ AfterCuts(d, cuts) \in Sound({})
                                     /\ Reached(d.facetOf, release, i, AfterCuts(d, cuts).facetOf)}

\* A batch of a deployment is allowed.
LEMMA ReplaceAllowed ==
  ASSUME NEW t, NEW f \in HasCode, NEW q \in Seq(Selectors), q # <<>>, IsInjective(q),
         \A s \in ToSet(q) : t[s] \notin {None, Self, f}
  PROVE  Table!BatchAllowed(t, OneCut(f, "Replace", q))
<1>1. f # None
  BY DiamondAssumption
<1>2. Table!ToSet(q) = ToSet(q) /\ (Table!IsInjective(q) <=> IsInjective(q))
  BY DEF Table!ToSet, ToSet, Table!IsInjective, IsInjective
<1>3. {t[s] : s \in ToSet(q)} \cap {None, Self, f} = {}
  OBVIOUS
<1>4. QED
  BY <1>1, <1>2, <1>3 DEF Table!BatchAllowed, OneCut

LEMMA AddAllowed ==
  ASSUME NEW t, NEW f \in HasCode, NEW q \in Seq(Selectors), q # <<>>, IsInjective(q),
         \A s \in ToSet(q) : t[s] = None
  PROVE  Table!BatchAllowed(t, OneCut(f, "Add", q))
<1>1. f # None
  BY DiamondAssumption
<1>2. Table!ToSet(q) = ToSet(q) /\ (Table!IsInjective(q) <=> IsInjective(q))
  BY DEF Table!ToSet, ToSet, Table!IsInjective, IsInjective
<1>3. q[1] \in ToSet(q)
  BY DEF ToSet
<1>4. {t[s] : s \in ToSet(q)} = {None}
  BY <1>3
<1>5. QED
  BY <1>1, <1>2, <1>4 DEF Table!BatchAllowed, OneCut

LEMMA RemoveAllowed ==
  ASSUME NEW t, NEW q \in Seq(Selectors), q # <<>>, IsInjective(q),
         \A s \in ToSet(q) : t[s] \notin {None, Self}
  PROVE  Table!BatchAllowed(t, OneCut(None, "Remove", q))
<1>1. Table!ToSet(q) = ToSet(q) /\ (Table!IsInjective(q) <=> IsInjective(q))
  BY DEF Table!ToSet, ToSet, Table!IsInjective, IsInjective
<1>2. {t[s] : s \in ToSet(q)} \cap {None, Self} = {}
  OBVIOUS
<1>3. QED
  BY <1>1, <1>2 DEF Table!BatchAllowed, OneCut

LEMMA ReachingStart ==
  ASSUME NEW d \in Sound({}), NEW release \in Releases,
         NEW x, x = CutOf(None, "Remove", RemovedSelectors(d, release))
  PROVE  x \in Reaching(d, release, 0)
<1> DEFINE t == d.facetOf
<1>1. PICK q : q = RemovedSelectors(d, release)
  OBVIOUS
<1>2. q \in Seq(Selectors) /\ IsInjective(q)
      /\ \A s \in Selectors : s \in ToSet(q) <=> Unreleased(t, release, s)
  BY <1>1, RemovedMeans DEF Unreleased
<1>3. PICK cut : cut = OneCut(None, "Remove", q)
  OBVIOUS
<1>4. x = <<>> \o x /\ x \in Seq(FacetCut) /\ <<>> \in Seq(FacetCut)
  <2>1. PICK y \in Seq(FacetCut) : y = CutOf(None, "Remove", q)
    BY <1>2, CutOfMeans
  <2>2. y = <<>> \o y
    OBVIOUS
  <2>3. QED
    BY <1>1, <2>1, <2>2
<1>5. PICK e : e = AfterCuts(d, x)
  OBVIOUS
<1>6. d = AfterCuts(d, <<>>)
  BY CutsEmpty
<1>7. e = AfterCuts(d, WithCut(<<>>, None, "Remove", q))
  BY <1>1, <1>4, <1>5 DEF WithCut
<1>8. /\ e # None <=> q = <<>> \/ Table!BatchAllowed(t, cut)
      /\ e # None => /\ e \in Sound({}) /\ e.facetOf = Moved(t, q, None)
  <2>1. PICK action, nobody, start :
              action = "Remove" /\ nobody = None /\ start = <<>>
    OBVIOUS
  <2>2. /\ action \in {"Add", "Replace", "Remove"} /\ nobody \in Facets \cup {None}
        /\ q \in Seq(Selectors) /\ start \in Seq(FacetCut)
        /\ d = AfterCuts(d, start) /\ e = AfterCuts(d, WithCut(start, nobody, action, q))
    BY <1>2, <1>4, <1>6, <1>7, <2>1
  <2>3. /\ e # None <=> q = <<>> \/ Table!BatchAllowed(t, OneCut(nobody, action, q))
        /\ e # None => /\ e \in Sound({}) /\ e.facetOf = Moved(t, q, nobody)
    <3>1. AfterCuts(d, WithCut(start, nobody, action, q))
            \in Outcomes(AfterCuts(d, start), nobody, action, q)
      BY <2>2, CutOfStep
    <3>2. QED
      BY <2>2, <3>1 DEF Outcomes
  <2>4. QED
    BY <1>3, <2>1, <2>3
<1>9. ASSUME Self \notin Table!Serving(t)
      PROVE  q = <<>> \/ Table!BatchAllowed(t, cut)
  <2>1. ToSet(q) \subseteq Selectors
    BY <1>2 DEF ToSet
  <2>2. \A s \in Selectors : t[s] # Self
    BY <1>9, DiamondAssumption DEF Table!Serving
  <2>3. \A s \in ToSet(q) : t[s] \notin {None, Self}
    BY <1>2, <2>1, <2>2 DEF Unreleased
  <2>4. QED
    BY <1>2, <1>3, <2>3, RemoveAllowed
<1>10. e # None => Reached(t, release, 0, e.facetOf)
  <2>1. 1 .. 0 = {}
    OBVIOUS
  <2>2. QED
    BY <1>2, <1>8, <2>1 DEF Reached, Moved
<1>11. QED
  BY <1>4, <1>5, <1>8, <1>9, <1>10 DEF Reaching

LEMMA ReachingStep ==
  ASSUME NEW d \in Sound({}), NEW release \in Releases, NEW i \in 1 .. Len(release),
         NEW x \in Reaching(d, release, i - 1),
         NEW y, y = x \o FacetCuts(d.facetOf, release[i])
  PROVE  y \in Reaching(d, release, i)
<1> PICK t : t = d.facetOf
  OBVIOUS
<1>0. /\ t = d.facetOf /\ release \in Seq(Facet) /\ i \in DOMAIN release /\ i \in Nat
      /\ DOMAIN release = 1 .. Len(release) /\ i \in 1 .. i
      /\ \A j \in 1 .. i - 1 : j \in DOMAIN release /\ j # i
      /\ \A j \in 1 .. i : j \in 1 .. i - 1 \/ j = i
  BY DiamondAssumption
<1>1. PICK r \in Facet : r = release[i]
  BY <1>0
<1>2. PICK f \in HasCode : f = r.facet /\ f \in Facets /\ IsInjective(r.selectors)
                           /\ r.selectors \in Seq(Selectors)
  BY <1>0, <1>1, DiamondAssumption, ReleaseAssumption DEF Facet
<1>3. PICK q1 : q1 = Those(r.selectors, {s \in Selectors : t[s] \notin {None, r.facet}})
  OBVIOUS
<1>4. PICK q2 : q2 = Those(r.selectors, {s \in Selectors : t[s] = None})
  OBVIOUS
<1>5. /\ q1 \in Seq(Selectors) /\ IsInjective(q1)
      /\ \A s \in Selectors : s \in ToSet(q1) <=> s \in ToSet(r.selectors) /\ t[s] \notin {None, f}
  BY <1>2, <1>3, ThoseKept
<1>6. /\ q2 \in Seq(Selectors) /\ IsInjective(q2)
      /\ \A s \in Selectors : s \in ToSet(q2) <=> s \in ToSet(r.selectors) /\ t[s] = None
  BY <1>2, <1>4, ThoseKept
<1>7. ToSet(q1) \subseteq Selectors /\ ToSet(q2) \subseteq Selectors
  BY <1>5, <1>6 DEF ToSet
<1>8. PICK x1 : x1 = x \o CutOf(f, "Replace", q1)
  OBVIOUS
<1>9. /\ x \in Seq(FacetCut) /\ x1 \in Seq(FacetCut) /\ y \in Seq(FacetCut)
      /\ y = x1 \o CutOf(f, "Add", q2)
  <2>1. x \in Seq(FacetCut)
    BY DEF Reaching
  <2>2. PICK a \in Seq(FacetCut), b \in Seq(FacetCut) :
          a = CutOf(f, "Replace", q1) /\ b = CutOf(f, "Add", q2)
            /\ FacetCuts(t, r) = a \o b
    BY <1>2, <1>3, <1>4, FacetCutsMeans
  <2>3. y = x \o (a \o b) /\ x1 = x \o a
    BY <1>0, <1>1, <1>8, <2>2
  <2>4. y = x1 \o b /\ x1 \in Seq(FacetCut) /\ y \in Seq(FacetCut)
    BY <2>1, <2>2, <2>3
  <2>5. QED
    BY <2>1, <2>2, <2>4
<1>10. PICK e0, e1, e2 : e0 = AfterCuts(d, x) /\ e1 = AfterCuts(d, x1) /\ e2 = AfterCuts(d, y)
  OBVIOUS
<1>11. /\ e0 = None => Self \in Table!Serving(t)
       /\ e0 # None => e0 \in Sound({}) /\ Reached(t, release, i - 1, e0.facetOf)
  BY <1>0, <1>10 DEF Reaching
<1>12. PICK cut1, cut2 : cut1 = OneCut(f, "Replace", q1) /\ cut2 = OneCut(f, "Add", q2)
  OBVIOUS
<1>13. e0 = None => e1 = None
  <2>1. SUFFICES ASSUME e0 = None
                 PROVE  e1 = None
    OBVIOUS
  <2>2. CASE q1 = <<>>
    <3>1. x1 = x
      BY <1>8, <1>9, <2>2 DEF CutOf
    <3>2. QED
      BY <1>10, <2>1, <3>1
  <2>3. CASE q1 # <<>>
    <3>1. cut1 \in FacetCut /\ x1 = x \o <<cut1>>
      BY <1>2, <1>5, <1>8, <1>12, <2>3 DEF CutOf, FacetCut, OneCut
    <3>2. x1 = Append(x, cut1)
      BY <1>9, <3>1
    <3>3. QED
      BY <1>9, <1>10, <2>1, <3>1, <3>2, CutsAppended DEF NextCut
  <2>4. QED
    BY <2>2, <2>3
<1>14. e1 = None => e2 = None
  <2>1. SUFFICES ASSUME e1 = None
                 PROVE  e2 = None
    OBVIOUS
  <2>2. CASE q2 = <<>>
    <3>1. y = x1
      BY <1>9, <2>2 DEF CutOf
    <3>2. QED
      BY <1>10, <2>1, <3>1
  <2>3. CASE q2 # <<>>
    <3>1. cut2 \in FacetCut /\ y = x1 \o <<cut2>>
      BY <1>2, <1>6, <1>9, <1>12, <2>3 DEF CutOf, FacetCut, OneCut
    <3>2. y = Append(x1, cut2)
      BY <1>9, <3>1
    <3>3. QED
      BY <1>9, <1>10, <2>1, <3>1, <3>2, CutsAppended DEF NextCut
  <2>4. QED
    BY <2>2, <2>3
\* A selector of this facet has the place it had before the deployment.
<1>15. ASSUME e0 # None, NEW s \in ToSet(r.selectors)
       PROVE  s \in Selectors /\ e0.facetOf[s] = t[s]
  <2>1. s \in Selectors
    BY <1>2, <1>15 DEF ToSet
  <2>2. \A j \in 1 .. i - 1 : s \notin ToSet(release[j].selectors)
    BY <1>0, <1>1, <1>15, ReleaseAssumption
  <2>3. ~Unreleased(t, release, s)
    BY <1>0, <1>1, <1>15 DEF Unreleased
  <2>4. QED
    BY <1>11, <1>15, <2>1, <2>2, <2>3 DEF Reached
<1>16. ASSUME e0 # None
       PROVE  /\ e1 # None <=> q1 = <<>> \/ Table!BatchAllowed(e0.facetOf, cut1)
              /\ e1 # None => /\ e1 \in Sound({}) /\ e1.facetOf = Moved(e0.facetOf, q1, f)
  <2>1. e0 \in Sound({}) /\ f \in Facets \cup {None} /\ e1 = AfterCuts(d, WithCut(x, f, "Replace", q1))
    BY <1>2, <1>8, <1>10, <1>11, <1>16 DEF WithCut
  <2>2. QED
    <3>1. q1 \in Seq(Selectors) /\ x \in Seq(FacetCut) /\ e0 = AfterCuts(d, x)
      BY <1>5, <1>9, <1>10
    <3>2. PICK action \in {"Add", "Replace", "Remove"} : action = "Replace"
      OBVIOUS
    <3>3. /\ e1 # None <=> q1 = <<>> \/ Table!BatchAllowed(e0.facetOf, OneCut(f, action, q1))
          /\ e1 # None => /\ e1 \in Sound({}) /\ e1.facetOf = Moved(e0.facetOf, q1, f)
      <4>1. e1 = AfterCuts(d, WithCut(x, f, action, q1)) /\ AfterCuts(d, x) \in Sound({})
        BY <2>1, <3>1, <3>2
      <4>2. AfterCuts(d, WithCut(x, f, action, q1)) \in Outcomes(AfterCuts(d, x), f, action, q1)
        BY <2>1, <3>1, <4>1, CutOfStep
      <4>3. QED
        BY <3>1, <4>1, <4>2 DEF Outcomes
    <3>4. QED
      BY <1>12, <3>2, <3>3
<1>17. ASSUME e0 # None, e1 # None
       PROVE  /\ e2 # None <=> q2 = <<>> \/ Table!BatchAllowed(e1.facetOf, cut2)
              /\ e2 # None => /\ e2 \in Sound({}) /\ e2.facetOf = Moved(e1.facetOf, q2, f)
  <2>1. e1 \in Sound({}) /\ f \in Facets \cup {None} /\ e2 = AfterCuts(d, WithCut(x1, f, "Add", q2))
    BY <1>2, <1>9, <1>10, <1>16, <1>17 DEF WithCut
  <2>2. QED
    <3>1. q2 \in Seq(Selectors) /\ x1 \in Seq(FacetCut) /\ e1 = AfterCuts(d, x1)
      BY <1>6, <1>9, <1>10
    <3>2. PICK action \in {"Add", "Replace", "Remove"} : action = "Add"
      OBVIOUS
    <3>3. /\ e2 # None <=> q2 = <<>> \/ Table!BatchAllowed(e1.facetOf, OneCut(f, action, q2))
          /\ e2 # None => /\ e2 \in Sound({}) /\ e2.facetOf = Moved(e1.facetOf, q2, f)
      <4>1. e2 = AfterCuts(d, WithCut(x1, f, action, q2)) /\ AfterCuts(d, x1) \in Sound({})
        BY <2>1, <3>1, <3>2
      <4>2. AfterCuts(d, WithCut(x1, f, action, q2)) \in Outcomes(AfterCuts(d, x1), f, action, q2)
        BY <2>1, <3>1, <4>1, CutOfStep
      <4>3. QED
        BY <3>1, <4>1, <4>2 DEF Outcomes
    <3>4. QED
      BY <1>12, <3>2, <3>3
<1>18. ASSUME Self \notin Table!Serving(t)
       PROVE  e2 # None
  <2>1. \A s \in Selectors : t[s] # Self
    BY <1>0, <1>18, DiamondAssumption DEF Table!Serving
  <2>2. e0 # None
    BY <1>11, <1>18
  <2>3. \A s \in ToSet(q1) : e0.facetOf[s] \notin {None, Self, f}
    BY <1>5, <1>7, <1>15, <2>1, <2>2
  <2>4. e1 # None
    BY <1>5, <1>12, <1>16, <2>2, <2>3, ReplaceAllowed
  <2>5. \A s \in ToSet(q2) : s \notin ToSet(q1) /\ e0.facetOf[s] = None
    BY <1>5, <1>6, <1>7, <1>15, <2>2
  <2>6. \A s \in ToSet(q2) : e1.facetOf[s] = None
    BY <1>7, <1>16, <2>2, <2>4, <2>5 DEF Moved
  <2>7. QED
    BY <1>6, <1>12, <1>17, <2>2, <2>4, <2>6, AddAllowed
<1>19. ASSUME e2 # None
       PROVE  e2 \in Sound({}) /\ Reached(t, release, i, e2.facetOf)
  <2>1. e0 # None /\ e1 # None
    BY <1>13, <1>14, <1>19
  <2>2. \A s \in Selectors : e2.facetOf[s] = IF s \in ToSet(q2) \/ s \in ToSet(q1) THEN f
                                              ELSE e0.facetOf[s]
    BY <1>16, <1>17, <1>19, <2>1 DEF Moved
  <2>3. ASSUME NEW s \in Selectors, s \in ToSet(r.selectors)
        PROVE  e2.facetOf[s] = f
    BY <1>5, <1>6, <1>15, <2>1, <2>2, <2>3
  <2>4. ASSUME NEW s \in Selectors, s \notin ToSet(r.selectors)
        PROVE  e2.facetOf[s] = e0.facetOf[s]
    BY <1>5, <1>6, <2>2, <2>4
  <2>5. ASSUME NEW s \in Selectors, NEW j \in 1 .. i, s \in ToSet(release[j].selectors)
        PROVE  e2.facetOf[s] = release[j].facet
    <3>1. CASE j = i
      BY <1>1, <1>2, <2>3, <2>5, <3>1
    <3>2. CASE j # i
      <4>1. j \in 1 .. i - 1 /\ s \notin ToSet(r.selectors)
        BY <1>0, <1>1, <2>5, <3>2, ReleaseAssumption
      <4>2. e0.facetOf[s] = release[j].facet
        BY <1>11, <2>1, <2>5, <4>1 DEF Reached
      <4>3. QED
        BY <2>4, <4>1, <4>2
    <3>3. QED
      BY <3>1, <3>2
  <2>6. ASSUME NEW s \in Selectors, \A j \in 1 .. i : s \notin ToSet(release[j].selectors)
        PROVE  e2.facetOf[s] = IF Unreleased(t, release, s) THEN None ELSE t[s]
    <3>1. s \notin ToSet(r.selectors) /\ \A j \in 1 .. i - 1 : s \notin ToSet(release[j].selectors)
      BY <1>0, <1>1, <2>6
    <3>2. e0.facetOf[s] = IF Unreleased(t, release, s) THEN None ELSE t[s]
      BY <1>11, <2>1, <3>1 DEF Reached
    <3>3. QED
      BY <2>4, <3>1, <3>2
  <2>7. e2 \in Sound({})
    BY <1>17, <1>19, <2>1
  <2>8. QED
    BY <2>5, <2>6, <2>7 DEF Reached
<1>20. QED
  BY <1>0, <1>9, <1>10, <1>18, <1>19 DEF Reaching

LEMMA DeployReaches ==
  ASSUME NEW d \in Sound({}), NEW release \in Releases
  PROVE  DeployCuts(d, release) \in Reaching(d, release, Len(release))
<1>0. PICK n \in Nat : n = Len(release) /\ release \in Seq(Facet)
  BY DiamondAssumption
<1>1. PICK w : /\ w[0] = CutOf(None, "Remove", RemovedSelectors(d, release))
               /\ w[n] = DeployCuts(d, release)
               /\ \A i \in 1 .. n : w[i] = w[i - 1] \o FacetCuts(LoupeTable(d), release[i])
  BY <1>0, DeployRun
<1> DEFINE X == [i \in 0 .. n |-> Reaching(d, release, i)]
<1>2. w[0] \in X[0]
  BY <1>1, ReachingStart
<1>3. ASSUME NEW i \in 1 .. n, w[i - 1] \in X[i - 1]
      PROVE  w[i] \in X[i]
  <2>1. i - 1 \in 0 .. n /\ i \in 0 .. n
    OBVIOUS
  <2>2. PICK x, y : x = w[i - 1] /\ y = w[i]
    OBVIOUS
  <2>3. x \in Reaching(d, release, i - 1)
    BY <1>3, <2>1, <2>2
  <2>4. y = x \o FacetCuts(d.facetOf, release[i])
    BY <1>1, <2>2, LoupeMeans
  <2>5. y \in Reaching(d, release, i)
    BY <1>0, <2>3, <2>4, ReachingStep
  <2>6. QED
    BY <2>1, <2>2, <2>5
<1>4. X[n] = Reaching(d, release, n)
  OBVIOUS
<1> HIDE DEF X
<1>5. w[n] \in X[n]
  BY <1>2, <1>3, RunFollows
<1>6. QED
  BY <1>0, <1>1, <1>4, <1>5

-----------------------------------------------------------------------------
(***************************************************************************)
(* The constructor.                                                        *)
(***************************************************************************)
LEMMA EmptySound == EmptyStorage \in Sound({})
<1>1. EmptyStorage \in DiamondStorage
  <2>1. <<>> \in Seq(Selectors) /\ <<>> \in Seq(HasCode)
    OBVIOUS
  <2>2. QED
    BY <2>1 DEF EmptyStorage, DiamondStorage
<1>2. Routed(EmptyStorage)
  BY DEF EmptyStorage, Routed
<1>3. Listed(EmptyStorage, {})
  BY DEF EmptyStorage, Listed, ToSet
<1>4. QED
  BY <1>1, <1>2, <1>3 DEF Sound

LEMMA DefaultTyped ==
  /\ DefaultCuts \in Seq(FacetCut) /\ Len(DefaultCuts) = 3
  /\ DefaultCuts[1] = [facet |-> CutFacet, action |-> "Add", selectors |-> <<CutSelector>>]
  /\ DefaultCuts[2] = [facet |-> LoupeFacet, action |-> "Add", selectors |-> LoupeSelectors]
  /\ DefaultCuts[3] = [facet |-> OwnershipFacet, action |-> "Add",
                       selectors |-> OwnershipSelectors]
<1>1. PICK a : a = [facet |-> CutFacet, action |-> "Add", selectors |-> <<CutSelector>>]
  OBVIOUS
<1>2. PICK b : b = [facet |-> LoupeFacet, action |-> "Add", selectors |-> LoupeSelectors]
  OBVIOUS
<1>3. PICK c : c = [facet |-> OwnershipFacet, action |-> "Add", selectors |-> OwnershipSelectors]
  OBVIOUS
<1>4. a \in FacetCut /\ b \in FacetCut /\ c \in FacetCut
  <2>1. {CutFacet, LoupeFacet, OwnershipFacet} \subseteq Facets
    BY DiamondAssumption
  <2>2. <<CutSelector>> \in Seq(Selectors) /\ LoupeSelectors \in Seq(Selectors)
        /\ OwnershipSelectors \in Seq(Selectors)
    BY DiamondAssumption
  <2>3. QED
    BY <1>1, <1>2, <1>3, <2>1, <2>2 DEF FacetCut
<1>5. DefaultCuts = <<a, b, c>>
  BY <1>1, <1>2, <1>3 DEF DefaultCuts
<1>6. /\ <<a, b, c>> \in Seq(FacetCut) /\ Len(<<a, b, c>>) = 3
      /\ <<a, b, c>>[1] = a /\ <<a, b, c>>[2] = b /\ <<a, b, c>>[3] = c
  BY <1>4
<1>7. QED
  BY <1>1, <1>2, <1>3, <1>5, <1>6

\* The constructor's three cuts serve the diamond's own functions.
LEMMA DefaultServes ==
  ASSUME NEW e, e = AfterCuts(EmptyStorage, DefaultCuts), e # None
  PROVE  e \in Sound({}) /\ \A s \in Selectors : e.facetOf[s] # None <=> s \in DefaultSelectors
<1>1. PICK w : /\ w[0] = EmptyStorage /\ w[Len(DefaultCuts)] = e
               /\ \A i \in 1 .. Len(DefaultCuts) : w[i] = NextCut(w[i - 1], DefaultCuts[i])
  <2>1. PICK d, cuts : d = EmptyStorage /\ cuts = DefaultCuts /\ cuts \in Seq(FacetCut)
    BY DefaultTyped
  <2>2. \E w : /\ w[0] = d /\ w[Len(cuts)] = AfterCuts(d, cuts)
               /\ \A i \in 1 .. Len(cuts) : w[i] = NextCut(w[i - 1], cuts[i])
    BY <2>1, CutsRun
  <2>3. QED
    BY <2>1, <2>2
<1>2. PICK d0, d1, d2 : d0 = w[0] /\ d1 = w[1] /\ d2 = w[2]
  OBVIOUS
<1>3. PICK a \in FacetCut, b \in FacetCut, c \in FacetCut :
        a = DefaultCuts[1] /\ b = DefaultCuts[2] /\ c = DefaultCuts[3]
  BY DefaultTyped
<1>4. d1 = NextCut(d0, a) /\ d2 = NextCut(d1, b) /\ e = NextCut(d2, c)
  BY <1>1, <1>2, <1>3, DefaultTyped
<1>5. d0 \in Sound({}) /\ d0 # None
  BY <1>1, <1>2, EmptySound, StorageIsSome
<1>6. d2 # None /\ d1 # None
  BY <1>4 DEF NextCut
<1>7. d1 = ApplyCut(d0, a) /\ d2 = ApplyCut(d1, b) /\ e = ApplyCut(d2, c)
  BY <1>4, <1>5, <1>6 DEF NextCut
<1>8. d1 \in Sound({}) /\ d1.facetOf = Table!AfterBatch(d0.facetOf, a)
  BY <1>5, <1>6, <1>7, CutStep
<1>9. d2 \in Sound({}) /\ d2.facetOf = Table!AfterBatch(d1.facetOf, b)
  BY <1>6, <1>7, <1>8, CutStep
<1>10. e \in Sound({}) /\ e.facetOf = Table!AfterBatch(d2.facetOf, c)
  BY <1>7, <1>9, CutStep
<1>11. /\ a.facet # None /\ b.facet # None /\ c.facet # None
       /\ a.selectors = <<CutSelector>> /\ b.selectors = LoupeSelectors
       /\ c.selectors = OwnershipSelectors
  BY <1>3, DefaultTyped, DiamondAssumption
<1>12. ToSet(<<CutSelector>>) = {CutSelector}
  BY DEF ToSet
<1>13. \A s \in Selectors : d0.facetOf[s] = None
  BY <1>1, <1>2 DEF EmptyStorage
<1>14. \A s \in Selectors : d1.facetOf[s] # None <=> s = CutSelector
  BY <1>8, <1>11, <1>12, <1>13 DEF Table!AfterBatch, Table!ToSet, ToSet
<1>15. \A s \in Selectors : d2.facetOf[s] # None <=> s = CutSelector \/ s \in ToSet(LoupeSelectors)
  BY <1>9, <1>11, <1>14 DEF Table!AfterBatch, Table!ToSet, ToSet
<1>16. \A s \in Selectors : e.facetOf[s] # None
         <=> \/ s = CutSelector \/ s \in ToSet(LoupeSelectors) \/ s \in ToSet(OwnershipSelectors)
  BY <1>10, <1>11, <1>15 DEF Table!AfterBatch, Table!ToSet, ToSet
<1>17. QED
  BY <1>10, <1>16 DEF DefaultSelectors

-----------------------------------------------------------------------------
(***************************************************************************)
(* The invariant, and what follows.                                        *)
(***************************************************************************)
\* The constructor did not revert, and the indices are inverse to each other.
Cutting ==
  /\ AfterCuts(EmptyStorage, DefaultCuts) # None
  /\ ds \in Sound({})
  /\ owner \in Accounts \cup {None}

LEMMA InitCutting == Init => Cutting
BY DefaultServes DEF Init, Cutting

\* What a diamondCut does, by hand or from the script.
LEMMA CutKeeps ==
  ASSUME Cutting, NEW cuts \in Seq(FacetCut), NEW caller, NEW init, NEW hasData,
         DiamondCut(caller, cuts, init, hasData)
  PROVE  Cutting' /\ KeepsSelf(ds.facetOf, ds'.facetOf)
<1>1. PICK e : e = AfterCuts(ds, cuts) /\ e # None /\ ds' = e /\ owner' = owner
  BY DEF DiamondCut
<1>2. e \in Sound({}) /\ KeepsSelf(ds.facetOf, e.facetOf)
  BY <1>1, CutsSound DEF Cutting
<1>3. QED
  BY <1>1, <1>2 DEF Cutting

LEMMA NextCutting == Cutting /\ [Next]_vars => Cutting' /\ KeepsSelf(ds.facetOf, ds'.facetOf)
<1>1. SUFFICES ASSUME Cutting, [Next]_vars
               PROVE  Cutting' /\ KeepsSelf(ds.facetOf, ds'.facetOf)
  OBVIOUS
<1>2. ASSUME NEW caller \in Accounts, NEW cuts \in CutInputs, NEW init \in Initialisers,
             NEW hasData \in BOOLEAN, DiamondCut(caller, cuts, init, hasData)
      PROVE  Cutting' /\ KeepsSelf(ds.facetOf, ds'.facetOf)
  <2>1. cuts \in Seq(FacetCut)
    BY DiamondAssumption
  <2>2. QED
    BY <1>1, <1>2, <2>1, CutKeeps
<1>3. ASSUME NEW caller \in Accounts, NEW release \in Releases, NEW init \in Initialisers,
             Deploy(caller, release, init)
      PROVE  Cutting' /\ KeepsSelf(ds.facetOf, ds'.facetOf)
  <2>1. DeployCuts(ds, release) \in Seq(FacetCut)
    BY <1>1, DeployTyped DEF Cutting
  <2>2. DiamondCut(caller, DeployCuts(ds, release), init, TRUE)
    BY <1>3 DEF Deploy
  <2>3. QED
    BY <1>1, <2>1, <2>2, CutKeeps
<1>4. ASSUME NEW caller \in Accounts, NEW newOwner \in Accounts \cup {None},
             TransferOwnership(caller, newOwner)
      PROVE  Cutting' /\ KeepsSelf(ds.facetOf, ds'.facetOf)
  BY <1>1, <1>4 DEF TransferOwnership, Cutting, KeepsSelf
<1>5. CASE UNCHANGED vars
  BY <1>1, <1>5 DEF vars, Cutting, KeepsSelf
<1>6. QED
  BY <1>1, <1>2, <1>3, <1>4, <1>5 DEF Next

THEOREM CuttingHolds == Spec => []Cutting
<1>1. Cutting /\ [Next]_vars => Cutting'
  BY NextCutting
<1>2. QED
  BY InitCutting, <1>1, PTL DEF Spec

\* The storage of the diamond stays well formed, and every facet that it lists
\* is a contract, whatever is cut and however often.
THEOREM StorageTyped == Spec => []TypeOK
<1>1. Cutting => TypeOK
  BY DEF Cutting, Sound, TypeOK
<1>2. QED
  BY CuttingHolds, <1>1, PTL

\* After any cuts, by hand or from releases, the routes and the facets'
\* arrays, and the list of facets and their positions, are inverse.
THEOREM IndicesStayInverse == Spec => []IndicesInverse
<1>1. Cutting => IndicesInverse
  <2>1. SUFFICES ASSUME Cutting
                 PROVE  RoutesIndexed /\ FacetsListed
    BY DEF IndicesInverse
  <2>2. ds \in DiamondStorage /\ Routed(ds) /\ Listed(ds, {})
    BY <2>1 DEF Cutting, Sound
  <2>3. \A s \in Selectors : ds.facetOf[s] # None => s \in ToSet(ds.selectorsOf[ds.facetOf[s]])
    BY <2>2 DEF Routed, ToSet
  <2>4. RoutesIndexed
    BY <2>2, <2>3 DEF RoutesIndexed, Routed
  <2>5. FacetsListed
    BY <2>2 DEF FacetsListed, Listed
  <2>6. QED
    BY <2>4, <2>5
<1>2. QED
  BY CuttingHolds, <1>1, PTL

\* No cut takes a function away from the diamond itself.
THEOREM ImmutableFunctionsStay == Spec => ImmutableStays
<1>1. Cutting /\ [Next]_vars
        => [\A s \in Selectors : ds.facetOf[s] = Self => ds'.facetOf[s] = Self]_vars
  BY NextCutting DEF KeepsSelf
<1>2. QED
  BY CuttingHolds, <1>1, PTL DEF Spec, ImmutableStays

\* Whatever was cut before, a deployment does not revert in diamondCut unless
\* an immutable function is in its way.
THEOREM UpgradesGoThrough == Spec => []UpgradeNeverBlocked
<1>1. Cutting => UpgradeNeverBlocked
  <2>1. SUFFICES ASSUME Cutting, Self \notin ToSet(ds.facetAddresses), NEW release \in Releases
                 PROVE  AfterCuts(ds, DeployCuts(ds, release)) # None
    BY DEF UpgradeNeverBlocked
  <2>2. ds \in Sound({})
    BY <2>1 DEF Cutting
  <2>3. Self \in Facets
    BY DiamondAssumption
  <2>4. ds.selectorsOf[Self] = <<>>
    BY <2>1, <2>2, <2>3 DEF Sound, Listed
  <2>5. Self \notin Table!Serving(ds.facetOf)
    BY <2>2, <2>3, <2>4, ServingMeans
  <2>6. DeployCuts(ds, release) \in Reaching(ds, release, Len(release))
    BY <2>2, DeployReaches
  <2>7. QED
    BY <2>5, <2>6 DEF Reaching
<1>2. QED
  BY CuttingHolds, <1>1, PTL

-----------------------------------------------------------------------------
(***************************************************************************)
(* Seen through facets(), the diamond is a table of selectors.             *)
(***************************************************************************)
NextTable(t, cut) ==
  IF t # None /\ Table!BatchAllowed(t, cut) THEN Table!AfterBatch(t, cut) ELSE None

\* The tables between the cuts of one array.
LEMMA TableRun ==
  ASSUME NEW t, NEW cuts \in Seq(FacetCut)
  PROVE  \E w : /\ w[0] = t /\ w[Len(cuts)] = Table!AfterCuts(t, cuts)
                /\ \A i \in 1 .. Len(cuts) : w[i] = NextTable(w[i - 1], cuts[i])
<1> DEFINE Runs(w, k) == w = [i \in 0 .. k |->
             IF i = 0 THEN t
             ELSE IF w[i - 1] # None /\ Table!BatchAllowed(w[i - 1], cuts[i])
             THEN Table!AfterBatch(w[i - 1], cuts[i])
             ELSE None]
           T == {k \in Nat : \E w : Runs(w, k)}
<1>0. Len(cuts) \in Nat
  OBVIOUS
<1>1. 0 \in T
  <2>1. Runs([i \in 0 .. 0 |-> t], 0)
    OBVIOUS
  <2> HIDE DEF Runs
  <2>2. QED
    BY <2>1
<1>2. ASSUME NEW k \in Nat, k \in T
      PROVE  k + 1 \in T
  <2>1. PICK w : Runs(w, k)
    BY <1>2
  <2> DEFINE u == [i \in 0 .. k + 1 |-> IF i = k + 1 THEN NextTable(w[k], cuts[i]) ELSE w[i]]
  <2>2. \A i \in 0 .. k + 1 :
          u[i] = IF i = 0 THEN t
                 ELSE IF u[i - 1] # None /\ Table!BatchAllowed(u[i - 1], cuts[i])
                 THEN Table!AfterBatch(u[i - 1], cuts[i])
                 ELSE None
    BY <2>1 DEF NextTable
  <2>3. Runs(u, k + 1)
    BY <2>2
  <2> HIDE DEF u
  <2> HIDE DEF Runs
  <2>4. QED
    BY <2>3
<1> HIDE DEF T
<1>3. Len(cuts) \in T
  BY <1>0, <1>1, <1>2, AllNaturals
<1>4. \E w : Runs(w, Len(cuts))
  BY <1>3 DEF T
<1> DEFINE after == CHOOSE w : Runs(w, Len(cuts))
<1>5. Runs(after, Len(cuts))
  BY <1>4
<1>6. Table!AfterCuts(t, cuts) = after[Len(cuts)]
  BY DEF Table!AfterCuts
<1> HIDE DEF after
<1>7. after[0] = t
  BY <1>0, <1>5
<1>8. ASSUME NEW i \in 1 .. Len(cuts)
      PROVE  after[i] = NextTable(after[i - 1], cuts[i])
  <2>1. i \in 0 .. Len(cuts) /\ i # 0
    BY <1>0
  <2>2. QED
    BY <1>5, <2>1 DEF NextTable
<1>9. QED
  BY <1>6, <1>7, <1>8

\* Cuts revert, and change the routes, as they do in the table.
LEMMA CutsFollowTable ==
  ASSUME NEW d \in Sound({}), NEW cuts \in Seq(FacetCut),
         NEW e, e = AfterCuts(d, cuts), e # None
  PROVE  /\ Table!AfterCuts(d.facetOf, cuts) = e.facetOf
         /\ e.facetOf # None
<1>0. PICK n \in Nat : n = Len(cuts)
  OBVIOUS
<1> PICK t, u : t = d.facetOf /\ u = Table!AfterCuts(d.facetOf, cuts)
  OBVIOUS
<1>1. PICK w : /\ w[0] = d /\ w[n] = e
               /\ \A i \in 1 .. n : w[i] = NextCut(w[i - 1], cuts[i])
  BY <1>0, CutsRun
<1>2. PICK v : /\ v[0] = t /\ v[n] = u
               /\ \A i \in 1 .. n : v[i] = NextTable(v[i - 1], cuts[i])
  <2>1. \E v : /\ v[0] = t /\ v[Len(cuts)] = Table!AfterCuts(t, cuts)
               /\ \A i \in 1 .. Len(cuts) : v[i] = NextTable(v[i - 1], cuts[i])
    BY TableRun
  <2>2. QED
    BY <1>0, <2>1
<1> DEFINE X == {i \in 0 .. n : w[i] # None => w[i] \in Sound({}) /\ v[i] = w[i].facetOf}
           same == [i \in 0 .. n |-> i]
<1>3. \A x \in Sound({}) : x.facetOf # None
  BY DiamondAssumption DEF Sound, DiamondStorage
<1>4. same[0] \in X
  BY <1>1, <1>2
<1>5. ASSUME NEW i \in 1 .. n, same[i - 1] \in X
      PROVE  same[i] \in X
  <2>1. i - 1 \in 0 .. n /\ i \in 0 .. n /\ same[i] = i /\ same[i - 1] = i - 1
    OBVIOUS
  <2>2. PICK x, y : x = w[i - 1] /\ y = w[i]
    OBVIOUS
  <2>3. PICK cut \in FacetCut : cut = cuts[i]
    BY <1>0
  <2>4. x # None => x \in Sound({}) /\ v[i - 1] = x.facetOf
    BY <1>5, <2>1, <2>2
  <2>5. y = NextCut(x, cut) /\ v[i] = NextTable(v[i - 1], cut)
    BY <1>1, <1>2, <2>2, <2>3
  <2>6. ASSUME y # None
        PROVE  y \in Sound({}) /\ v[i] = y.facetOf
    <3>1. x \in Sound({}) /\ v[i - 1] = x.facetOf /\ y = ApplyCut(x, cut)
      BY <2>4, <2>5, <2>6 DEF NextCut
    <3>2. /\ y \in Sound({}) /\ y.facetOf = Table!AfterBatch(x.facetOf, cut)
          /\ Table!BatchAllowed(x.facetOf, cut)
      BY <2>6, <3>1, CutStep
    <3>3. QED
      BY <1>3, <2>5, <3>1, <3>2 DEF NextTable
  <2>7. QED
    BY <2>1, <2>2, <2>6
<1>6. same[n] = n
  OBVIOUS
<1> HIDE DEF X, same
<1>7. n \in X
  BY <1>4, <1>5, <1>6, RunKeeps
<1>8. e \in Sound({}) /\ u = e.facetOf
  BY <1>1, <1>2, <1>7 DEF X
<1>9. QED
  BY <1>3, <1>8

\* A deployment that does not revert leaves the release, what the diamond
\* itself needs, and nothing else.
LEMMA UpgradeStep ==
  ASSUME Cutting, NEW release \in Releases, NEW e,
         e = AfterCuts(ds, DeployCuts(ds, release)), e # None, ds' = e, Cutting'
  PROVE  Table!Upgrade
<1> DEFINE t == ds.facetOf
<1>0. /\ ds \in Sound({}) /\ e \in Sound({}) /\ DOMAIN release = 1 .. Len(release)
      /\ LoupeTable(ds) = t /\ LoupeTable(ds') = e.facetOf
  BY DiamondAssumption, LoupeMeans DEF Cutting
<1>1. Reached(t, release, Len(release), e.facetOf)
  BY <1>0, DeployReaches DEF Reaching
<1>2. PICK start : start = LoupeTable(AfterCuts(EmptyStorage, DefaultCuts))
  OBVIOUS
<1>3. \A s \in Selectors : start[s] # None <=> s \in DefaultSelectors
  BY <1>2, DefaultServes, LoupeMeans DEF Cutting
<1>4. ASSUME NEW s \in Selectors, NEW hosts,
             hosts = {i \in DOMAIN release : s \in ToSet(release[i].selectors)}
      PROVE  e.facetOf[s] = IF hosts # {} THEN release[CHOOSE i \in hosts : TRUE].facet
                            ELSE IF start[s] # None THEN t[s] ELSE None
  <2>1. CASE hosts # {}
    <3>1. PICK i : i = (CHOOSE j \in hosts : TRUE) /\ i \in hosts
      BY <2>1
    <3>2. QED
      BY <1>0, <1>1, <1>4, <2>1, <3>1 DEF Reached
  <2>2. CASE hosts = {}
    <3>1. \A i \in 1 .. Len(release) : s \notin ToSet(release[i].selectors)
      BY <1>0, <1>4, <2>2
    <3>2. e.facetOf[s] = IF Unreleased(t, release, s) THEN None ELSE t[s]
      BY <1>1, <3>1 DEF Reached
    <3>3. Unreleased(t, release, s) <=> t[s] # None /\ start[s] = None
      BY <1>0, <1>3, <3>1 DEF Unreleased
    <3>4. QED
      BY <2>2, <3>2, <3>3
  <2>3. QED
    BY <2>1, <2>2
<1>5. e.facetOf = [s \in Selectors |->
        LET hosts == {i \in DOMAIN release : s \in ToSet(release[i].selectors)} IN
        IF hosts # {} THEN release[CHOOSE i \in hosts : TRUE].facet
        ELSE IF start[s] # None THEN t[s] ELSE None]
  <2>1. e.facetOf = [s \in Selectors |-> e.facetOf[s]]
    BY <1>0, Types DEF Sound, DiamondStorage
  <2>2. QED
    BY <1>4, <2>1
<1>6. QED
  BY <1>0, <1>2, <1>5 DEF Table!Upgrade, Table!ToSet, ToSet

LEMMA TableStep ==
  ASSUME Cutting, Cutting', [Next]_vars
  PROVE  [Table!Cut \/ Table!Upgrade]_(LoupeTable(ds))
<1>1. ASSUME NEW caller \in Accounts, NEW cuts \in CutInputs, NEW init \in Initialisers,
             NEW hasData \in BOOLEAN, DiamondCut(caller, cuts, init, hasData)
      PROVE  Table!Cut
  <2>1. PICK e : e = AfterCuts(ds, cuts) /\ e # None /\ ds' = e
    BY <1>1 DEF DiamondCut
  <2>2. ds \in Sound({}) /\ e \in Sound({}) /\ cuts \in Seq(FacetCut)
    BY <2>1, DiamondAssumption DEF Cutting
  <2>3. LoupeTable(ds) = ds.facetOf /\ LoupeTable(ds') = e.facetOf
    BY <2>1, <2>2, LoupeMeans
  <2>4. Table!AfterCuts(ds.facetOf, cuts) = e.facetOf /\ e.facetOf # None
    BY <2>1, <2>2, CutsFollowTable
  <2>5. QED
    BY <2>3, <2>4 DEF Table!Cut
<1>2. ASSUME NEW caller \in Accounts, NEW release \in Releases, NEW init \in Initialisers,
             Deploy(caller, release, init)
      PROVE  Table!Upgrade
  <2>1. PICK e : e = AfterCuts(ds, DeployCuts(ds, release)) /\ e # None /\ ds' = e
    BY <1>2 DEF Deploy, DiamondCut
  <2>2. QED
    BY <2>1, UpgradeStep
<1>3. ASSUME NEW caller \in Accounts, NEW newOwner \in Accounts \cup {None},
             TransferOwnership(caller, newOwner)
      PROVE  LoupeTable(ds)' = LoupeTable(ds)
  BY <1>3 DEF TransferOwnership, LoupeTable, LoupeFacets
<1>4. CASE UNCHANGED vars
  BY <1>4 DEF vars, LoupeTable, LoupeFacets
<1>5. QED
  BY <1>1, <1>2, <1>3, <1>4 DEF Next

\* LibDiamond's arrays and positions implement the table of selectors: a cut
\* changes it as a whole or not at all, and a deployment leaves exactly the
\* release and the diamond's own functions.
THEOREM DiamondImplementsTable == Spec => ImplementsTable
<1>1. Init => Table!Init
  BY DEF Init, Table!Init
<1>2. Cutting /\ Cutting' /\ [Next]_vars => [Table!Cut \/ Table!Upgrade]_(LoupeTable(ds))
  BY TableStep
<1>3. QED
  BY CuttingHolds, <1>1, <1>2, PTL DEF Spec, ImplementsTable, Table!Spec
=============================================================================
