---------------------------- MODULE WebClientProofs ----------------------------
(***************************************************************************)
(* What the web client keeps to, whatever the users, wheels, networks and  *)
(* bounds, and however many requests are under way.                        *)
(***************************************************************************)
EXTENDS WebClient, FiniteSetTheorems, WellFoundedInduction, TLAPS

------------------------------------------------------------------------------
(* The pages.                                                              *)

\* What the proofs need to know of the ten pages: only pages of the shell show data or the wheel;
\* only the profile is kept in the store; and only on notices is a change shown before it is made.
LEMMA PageFacts ==
  ASSUME page \in Pages
  PROVE  /\ page.kind \in {"data", "wheel", "recharge"} /\ page.gated \in BOOLEAN
         /\ page.kind \in {"data", "wheel"} <=> page.gated
         /\ IsData => /\ page.cache \in BOOLEAN /\ page.opens \in BOOLEAN /\ page.empties \in BOOLEAN
                      /\ page.acts \subseteq {"reread", "before", "after"}
         /\ IsData /\ page.again = "never" => ~page.cache /\ page.opens /\ "reread" \notin page.acts
         /\ IsData /\ ~page.cache => page.again \in {"page", "never"} /\ page.opens
         /\ IsData /\ ~page.cache /\ page.acts # {} => page.again = "never"
         /\ IsData /\ "before" \in page.acts => page.again = "never"
         /\ IsData /\ ~page.opens => page.acts = {"after"} /\ page.cache /\ page.again = "home"
         /\ IsData /\ page.opens => page.again \in {"page", "never"}
         /\ page.kind = "wheel" /\ page.whole => page.pointer = 0
         /\ page.kind = "wheel" => page.whole \in BOOLEAN /\ page.pointer \in Int
  <1>1. CASE page = Prizes
    BY <1>1 DEF Prizes, Cached, IsData
  <1>2. CASE page = Transactions
    BY <1>2 DEF Transactions, Cached, IsData
  <1>3. CASE page = Draws
    BY <1>3 DEF Draws, Cached, IsData
  <1>4. CASE page = DailySpinProgress
    BY <1>4 DEF DailySpinProgress, Draws, Cached, IsData
  <1>5. CASE page = Passport
    BY <1>5 DEF Passport, Draws, Cached, IsData
  <1>6. CASE page = Notifications
    BY <1>6 DEF Notifications, Passport, Draws, Cached, IsData
  <1>7. CASE page = Profile
    BY <1>7 DEF Profile, Cached, IsData
  <1>8. CASE page = SpinPage
    BY <1>8 DEF SpinPage, IsData
  <1>9. CASE page = SpinWheelWidget
    BY <1>9, WebAssumption DEF SpinWheelWidget, SpinPage, IsData
  <1>10. CASE page = RechargePage
    BY <1>10 DEF RechargePage, IsData
  <1>. QED
    BY <1>1, <1>2, <1>3, <1>4, <1>5, <1>6, <1>7, <1>8, <1>9, <1>10 DEF Pages

------------------------------------------------------------------------------
(* Requests.                                                               *)

\* The operations are those of the kinds of page, and none is asked for on two of them.
LEMMA OpFacts ==
  ASSUME page \in Pages, NEW op \in OpsOf(page.kind)
  PROVE  /\ op \in Ops
         /\ op \in {"load", "act"} <=> IsData
         /\ op \in {"config", "play"} <=> page.kind = "wheel"
  BY PageFacts DEF OpsOf, Ops, IsData

\* A request as it is sent is one, and not the mark of a free place.
LEMMA NewRequest ==
  ASSUME page \in Pages, NEW op \in OpsOf(page.kind), NEW arg \in ArgOf(op),
         NEW how \in {None, "reread", "before", "after"}, op = "act" => how \in page.acts,
         NEW n \in Nat, NEW tok \in 0..n
  PROVE  IsRequest(RequestWith(op, arg, how, tok), n) /\ RequestWith(op, arg, how, tok) # None
  <1>. DEFINE q == RequestWith(op, arg, how, tok)
  <1>1. None \in AnswerOf(op) /\ tok \in Nat
    BY DEF AnswerOf
  <1>2. q \in RequestOf(op)
    BY <1>1 DEF RequestOf, RequestWith
  <1>3. q # None
    BY <1>2, OpFacts, NoneAssumption
  <1>4. IsRequest(q, n)
    BY <1>2 DEF IsRequest, RequestWith
  <1>. QED
    BY <1>3, <1>4

\* A request stays one when its answer comes, is lost or crossed, or no longer counts.
LEMMA RequestMarked ==
  ASSUME page \in Pages, NEW q, NEW n \in Nat, IsRequest(q, n)
  PROVE  /\ \A b \in BOOLEAN : IsRequest([q EXCEPT !.crossed = b], n)
         /\ IsRequest([q EXCEPT !.crossed = TRUE], n)
         /\ q.op = "load" => IsRequest([q EXCEPT !.late = TRUE], n)
         /\ q.op \in Guarded /\ q.answer = None => IsRequest([q EXCEPT !.state = "denied"], n)
         /\ \A a \in AnswerOf(q.op) : IsRequest([q EXCEPT !.state = "back", !.answer = a], n)
         /\ \A b \in BOOLEAN : IsRequest([q EXCEPT !.state = "back", !.answer = None, !.crossed = b], n)
  <1>1. PICK op \in OpsOf(page.kind) :
           /\ q \in RequestOf(op) /\ q.tok <= n
           /\ q.late => op = "load"
           /\ q.state = "denied" => op \in Guarded
           /\ q.state # "back" => q.answer = None
           /\ op = "act" => q.how \in page.acts
    BY DEF IsRequest
  <1>2. q.op = op /\ None \in AnswerOf(op)
    BY <1>1 DEF RequestOf, AnswerOf
  <1>3. \A b \in BOOLEAN : IsRequest([q EXCEPT !.crossed = b], n)
    BY <1>1, <1>2 DEF IsRequest, RequestOf
  <1>4. q.op = "load" => IsRequest([q EXCEPT !.late = TRUE], n)
    BY <1>1, <1>2 DEF IsRequest, RequestOf
  <1>5. q.op \in Guarded /\ q.answer = None => IsRequest([q EXCEPT !.state = "denied"], n)
    BY <1>1, <1>2 DEF IsRequest, RequestOf
  <1>6. \A a \in AnswerOf(q.op) : IsRequest([q EXCEPT !.state = "back", !.answer = a], n)
    BY <1>1, <1>2 DEF IsRequest, RequestOf
  <1>7. \A b \in BOOLEAN : IsRequest([q EXCEPT !.state = "back", !.answer = None, !.crossed = b], n)
    BY <1>1, <1>2 DEF IsRequest, RequestOf
  <1>8. IsRequest([q EXCEPT !.crossed = TRUE], n)
    BY <1>1, <1>2 DEF IsRequest, RequestOf
  <1>. QED
    BY <1>3, <1>4, <1>5, <1>6, <1>7, <1>8

\* The requests stay well-formed when answers are crossed, superseded or forgotten, when one ends
\* or takes a free place, and when a token is issued.
LEMMA CallsMarked ==
  ASSUME page \in Pages, NEW calls, NEW n \in Nat, IsCalls(calls, n)
  PROVE  IsCalls(Cross(calls), n) /\ IsCalls(CrossAll(calls), n) /\ IsCalls(NoCalls, n)
  <1>1. IsCalls(NoCalls, n)
    BY DEF IsCalls, NoCalls
  <1>2. \A c \in Call : Cross(calls)[c] = None \/ IsRequest(Cross(calls)[c], n)
    <2>. SUFFICES ASSUME NEW c \in Call
                  PROVE  Cross(calls)[c] = None \/ IsRequest(Cross(calls)[c], n)
      OBVIOUS
    <2>1. Cross(calls)[c] \in {calls[c], [calls[c] EXCEPT !.crossed = TRUE]}
      BY DEF Cross
    <2>2. calls[c] = None => Cross(calls)[c] = None
      BY DEF Cross
    <2>3. calls[c] # None => IsRequest([calls[c] EXCEPT !.crossed = TRUE], n)
      BY RequestMarked DEF IsCalls
    <2>4. calls[c] = None \/ IsRequest(calls[c], n)
      BY DEF IsCalls
    <2>. QED
      <3>1. CASE Cross(calls)[c] = calls[c]
        BY <3>1, <2>4
      <3>2. CASE Cross(calls)[c] = [calls[c] EXCEPT !.crossed = TRUE]
        BY <3>2, <2>2, <2>3
      <3>. QED
        BY <2>1, <3>1, <3>2
  <1>3. \A c \in Call : CrossAll(calls)[c] = None \/ IsRequest(CrossAll(calls)[c], n)
    BY RequestMarked DEF CrossAll, IsCalls, IsData
  <1>. QED
    BY <1>1, <1>2, <1>3 DEF IsCalls, Cross, CrossAll

LEMMA CallsSuperseded ==
  ASSUME page \in Pages, NEW n \in Nat, IsCalls(call, n)
  PROVE  IsCalls(Superseded, n) /\ \A c \in Free : Superseded[c] = None
  <1>1. \A c \in Call : Superseded[c] = None \/ IsRequest(Superseded[c], n)
    <2>. SUFFICES ASSUME NEW c \in Call PROVE Superseded[c] = None \/ IsRequest(Superseded[c], n)
      OBVIOUS
    <2>1. CASE call[c] # None /\ call[c].op = "load" /\ page.cache
      <3>1. Superseded[c] = IF call[c].state = "back" THEN None ELSE [call[c] EXCEPT !.late = TRUE]
        BY <2>1 DEF Superseded
      <3>. QED
        BY <2>1, <3>1, RequestMarked DEF IsCalls
    <2>2. CASE ~(call[c] # None /\ call[c].op = "load" /\ page.cache)
      BY <2>2 DEF Superseded, IsCalls
    <2>. QED
      BY <2>1, <2>2
  <1>. QED
    BY <1>1 DEF IsCalls, Superseded, Free

LEMMA CallsChanged ==
  ASSUME NEW calls, NEW n \in Nat, IsCalls(calls, n), NEW c \in Call
  PROVE  /\ IsCalls([calls EXCEPT ![c] = None], n)
         /\ \A q : IsRequest(q, n) => IsCalls([calls EXCEPT ![c] = q], n)
  BY DEF IsCalls

LEMMA MoreTokens ==
  ASSUME NEW calls, NEW n \in Nat, IsCalls(calls, n)
  PROVE  IsCalls(calls, n + 1)
  <1>1. \A q : IsRequest(q, n) => IsRequest(q, n + 1)
    BY DEF IsRequest, RequestOf
  <1>. QED
    BY <1>1 DEF IsCalls

\* What is sent takes a free place, and is well-formed.
LEMMA Sent ==
  ASSUME page \in Pages, NEW calls, NEW n \in Nat, IsCalls(calls, n),
         NEW op \in OpsOf(page.kind), NEW arg \in ArgOf(op),
         NEW how \in {None, "reread", "before", "after"}, op = "act" => how \in page.acts,
         NEW tok \in 0..n, With(RequestWith(op, arg, how, tok), calls)
  PROVE  /\ IsCalls(call', n)
         /\ \E c \in Free : /\ call' = [calls EXCEPT ![c] = RequestWith(op, arg, how, tok)]
                            /\ call'[c] = RequestWith(op, arg, how, tok) /\ call'[c] # None
                            /\ \A d \in Call \ {c} : call'[d] = calls[d]
  <1>1. PICK c \in Free : call' = [calls EXCEPT ![c] = RequestWith(op, arg, how, tok)]
    BY DEF With
  <1>2. c \in Call /\ DOMAIN calls = Call
    BY DEF Free, IsCalls
  <1>3. IsCalls(call', n)
    BY <1>1, <1>2, NewRequest, CallsChanged
  <1>4. /\ call'[c] = RequestWith(op, arg, how, tok) /\ call'[c] # None
        /\ \A d \in Call \ {c} : call'[d] = calls[d]
    BY <1>1, <1>2, NewRequest
  <1>. QED
    BY <1>1, <1>3, <1>4

------------------------------------------------------------------------------
(* The wheel.                                                              *)

Slices == [prize : Prize, size : Nat]

LEMMA PublishedWheels == \A w \in Published : w \in Seq(Slices) /\ DOMAIN w = 1..Len(w) /\ Len(w) \in Nat
  BY WebAssumption DEF Published, Slices

LEMMA SliceSize ==
  ASSUME NEW w \in Seq(Slices), NEW i \in 1..Len(w)
  PROVE  w[i].size \in Nat
  <1>1. w[i] \in Slices
    OBVIOUS
  <1>. QED
    BY <1>1 DEF Slices

\* A slice has as many units as its size.
LEMMA SliceUnits ==
  ASSUME NEW i \in Nat, NEW n \in Nat
  PROVE  IsFiniteSet({i} \X (1..n)) /\ Cardinality({i} \X (1..n)) = n
  <1>1. IsFiniteSet({i}) /\ Cardinality({i}) = 1
    BY FS_Singleton
  <1>2. IsFiniteSet(1..n) /\ Cardinality(1..n) = n
    BY FS_Interval
  <1>3. /\ IsFiniteSet({i} \X (1..n))
        /\ Cardinality({i} \X (1..n)) = Cardinality({i}) * Cardinality(1..n)
    BY <1>1, <1>2, FS_Product
  <1>. QED
    BY <1>1, <1>2, <1>3

LEMMA UnitsFinite ==
  ASSUME NEW w \in Seq(Slices), NEW n \in 0..Len(w)
  PROVE  IsFiniteSet(Units(w, n)) /\ Cardinality(Units(w, n)) \in Nat
  <1>. DEFINE parts == {{i} \X (1..w[i].size) : i \in 1..n}
              part == [i \in 1..n |-> {i} \X (1..w[i].size)]
  <1>1. part \in Surjection(1..n, parts)
    BY DEF Surjection
  <1>2. IsFiniteSet(1..n)
    BY FS_Interval
  <1>3. IsFiniteSet(parts)
    <2>. HIDE DEF parts, part
    <2>. QED
      BY <1>1, <1>2, FS_Surjection
  <1>4. \A s \in parts : IsFiniteSet(s)
    <2>. SUFFICES ASSUME NEW i \in 1..n PROVE IsFiniteSet({i} \X (1..w[i].size))
      OBVIOUS
    <2>1. i \in 1..Len(w) /\ i \in Nat
      OBVIOUS
    <2>2. w[i].size \in Nat
      BY <2>1, SliceSize
    <2>. QED
      BY <2>1, <2>2, SliceUnits
  <1>5. IsFiniteSet(UNION parts)
    BY <1>3, <1>4, FS_UNION
  <1>. QED
    BY <1>5, FS_CardinalityType DEF Units

\* Slices are laid end to end.
LEMMA UnitsNext ==
  ASSUME NEW w \in Seq(Slices), NEW n \in 1..Len(w)
  PROVE  Cardinality(Units(w, n)) = Cardinality(Units(w, n - 1)) + w[n].size
  <1>. DEFINE before == Units(w, n - 1)
              own == {n} \X (1..w[n].size)
  <1>1. IsFiniteSet(before) /\ Cardinality(before) \in Nat
    BY UnitsFinite
  <1>2. IsFiniteSet(own) /\ Cardinality(own) = w[n].size /\ w[n].size \in Nat
    <2>1. n \in Nat /\ w[n].size \in Nat
      BY SliceSize
    <2>. QED
      BY <2>1, SliceUnits
  <1>3. Units(w, n) = before \cup own
    BY DEF Units
  <1>4. before \cap own = {}
    BY DEF Units
  <1>5. Cardinality(before \cup own) = Cardinality(before) + Cardinality(own)
                                       - Cardinality(before \cap own)
    <2>. HIDE DEF before, own
    <2>. QED
      BY <1>1, <1>2, FS_Union
  <1>6. Cardinality({}) = 0
    BY FS_EmptySet
  <1>. QED
    <2>. HIDE DEF before, own
    <2>1. Cardinality(before \cap own) = 0
      BY <1>4, <1>6
    <2>2. Cardinality(before \cup own) = Cardinality(before) + w[n].size
      BY <1>1, <1>2, <1>5, <2>1
    <2>3. Cardinality(Units(w, n)) = Cardinality(before) + w[n].size
      BY <1>3, <2>2
    <2>. QED
      BY <2>3 DEF before

LEMMA UnitsMore ==
  ASSUME NEW w \in Seq(Slices), NEW n \in 0..Len(w), NEW m \in 0..n
  PROVE  Cardinality(Units(w, m)) <= Cardinality(Units(w, n))
  <1>1. Units(w, m) \subseteq Units(w, n)
    BY DEF Units
  <1>. QED
    BY <1>1, UnitsFinite, FS_Subset

\* A slice begins after the ones before it end, and all end within the turn.
LEMMA SlicesApart ==
  ASSUME NEW w \in Seq(Slices), NEW i \in 1..Len(w)
  PROVE  /\ Start(w, i) \in Nat /\ w[i].size \in Nat
         /\ Start(w, i) + w[i].size <= Sized(w)
         /\ \A j \in 1..Len(w) : i < j => Start(w, i) + w[i].size <= Start(w, j)
  <1>1. Start(w, i) \in Nat /\ w[i].size \in Nat
    BY UnitsFinite, SliceSize DEF Start
  <1>2. Cardinality(Units(w, i)) = Start(w, i) + w[i].size
    BY UnitsNext DEF Start
  <1>3. Start(w, i) + w[i].size <= Sized(w)
    BY <1>2, UnitsMore DEF Sized
  <1>4. ASSUME NEW j \in 1..Len(w), i < j
        PROVE  Start(w, i) + w[i].size <= Start(w, j)
    <2>1. j - 1 \in 0..Len(w) /\ i \in 0..(j - 1)
      BY <1>4
    <2>. QED
      BY <1>2, <2>1, UnitsMore DEF Start
  <1>. QED
    BY <1>1, <1>3, <1>4

\* What is won is on the wheel, and the first slice of it is found.
LEMMA FirstFound ==
  ASSUME NEW w \in Seq(Slices), NEW prize, \E i \in DOMAIN w : w[i].prize = prize
  PROVE  First(w, prize) \in 1..Len(w) /\ w[First(w, prize)].prize = prize
  <1>. DEFINE places == {i \in DOMAIN w : w[i].prize = prize}
  <1>1. places # {} /\ places \subseteq Nat /\ DOMAIN w = 1..Len(w)
    OBVIOUS
  <1>2. PICK i \in places : \A j \in places : ~ (<<j, i>> \in OpToRel(<, Nat))
    BY <1>1, NatLessThanWellFounded, WFMin
  <1>3. \A j \in places : i <= j
    <2>1. \A j \in Nat : j < i => <<j, i>> \in OpToRel(<, Nat)
      BY <1>1 DEF OpToRel
    <2>2. ASSUME NEW j \in places PROVE ~(j < i)
      <3>1. j \in Nat
        BY <1>1
      <3>. QED
        BY <1>2, <2>1, <3>1, Zenon
    <2>. QED
      BY <1>1, <2>2
  <1>4. \E k \in DOMAIN w : w[k].prize = prize /\ \A j \in DOMAIN w : w[j].prize = prize => k <= j
    BY <1>3
  <1>5. /\ First(w, prize) \in DOMAIN w
        /\ w[First(w, prize)].prize = prize
    BY <1>4 DEF First
  <1>. QED
    BY <1>1, <1>5

\* Angles are counted within one turn.
LEMMA WithinTurn ==
  /\ \A x \in Int : x % Turn \in 0..(Turn - 1)
  /\ \A x \in 0..(Turn - 1) : x % Turn = x /\ (x + Turn) % Turn = x
  <1>1. Turn \in Nat /\ Turn > 0
    BY WebAssumption
  <1>2. \A x \in Int : x % Turn \in 0..(Turn - 1)
    BY <1>1
  <1>3. \A x \in 0..(Turn - 1) : x % Turn = x
    BY <1>1
  <1>4. ASSUME NEW x \in 0..(Turn - 1) PROVE (x + Turn) % Turn = x
    BY <1>1
  <1>. QED
    BY <1>2, <1>3, <1>4

\* The nudge is less than what is left of the slice on either side of its centre.
LEMMA NudgedWithin ==
  ASSUME NEW z \in Nat \ {0}, NEW nudge \in (-((3 * z) \div 20))..((3 * z) \div 20)
  PROVE  z \div 2 \in Nat /\ z \div 2 - nudge \in 0..(z - 1) /\ (z \div 2 = 0 => nudge = 0)
  <1>1. /\ z \div 2 \in Nat /\ 2 * (z \div 2) <= z /\ z <= 2 * (z \div 2) + 1
    OBVIOUS
  <1>2. /\ (3 * z) \div 20 \in Nat /\ 20 * ((3 * z) \div 20) <= 3 * z
    OBVIOUS
  <1>. QED
    BY <1>1, <1>2

\* The rotation that lands on a slice, and is nudged a little, leaves the pointer on that slice.
LEMMA PointerOnSlice ==
  ASSUME NEW s \in Nat, NEW z \in Nat \ {0}, s + z <= Turn,
         NEW nudge \in (-((3 * z) \div 20))..((3 * z) \div 20)
  PROVE  LET landing  == (Turn + 0 - s - z \div 2) % Turn
             rotation == (Turn + 0 + landing + nudge) % Turn
             pointed  == (Turn + 0 - rotation) % Turn
         IN  s <= pointed /\ pointed < s + z
  <1>. DEFINE c == s + z \div 2
              e == c - nudge
              landing == (Turn + 0 - s - z \div 2) % Turn
              rotation == (Turn + 0 + landing + nudge) % Turn
              pointed == (Turn + 0 - rotation) % Turn
  <1>1. /\ z \div 2 \in Nat /\ nudge \in Int /\ Turn \in Nat \ {0}
        /\ c \in 0..(Turn - 1) /\ e \in s..(s + z - 1) /\ e \in 0..(Turn - 1) /\ (c = 0 => nudge = 0)
    BY NudgedWithin, WebAssumption
  <1>2. 0 % Turn = 0 /\ Turn % Turn = 0
    BY <1>1, WithinTurn
  <1>3. landing = IF c = 0 THEN 0 ELSE Turn - c
    <2>1. CASE c = 0
      <3>1. Turn + 0 - s - z \div 2 = Turn
        BY <1>1, <2>1
      <3>. QED
        BY <1>2, <2>1, <3>1
    <2>2. CASE c # 0
      <3>1. Turn + 0 - s - z \div 2 = Turn - c /\ Turn - c \in 0..(Turn - 1)
        BY <1>1, <2>2
      <3>. QED
        BY <2>2, <3>1, WithinTurn
    <2>. QED
      BY <2>1, <2>2
  <1>4. rotation = IF e = 0 THEN 0 ELSE Turn - e
    <2>1. CASE c = 0
      <3>1. Turn + 0 + landing + nudge = Turn /\ e = 0
        BY <1>1, <1>3, <2>1
      <3>. QED
        BY <1>2, <3>1
    <2>2. CASE c # 0 /\ e # 0
      <3>1. Turn + 0 + landing + nudge = (Turn - e) + Turn /\ Turn - e \in 0..(Turn - 1)
        <4>. HIDE DEF landing
        <4>. QED
          BY <1>1, <1>3, <2>2
      <3>. QED
        BY <2>2, <3>1, WithinTurn
    <2>3. CASE c # 0 /\ e = 0
      <3>1. Turn + 0 + landing + nudge = Turn + Turn
        <4>. HIDE DEF landing
        <4>. QED
          BY <1>1, <1>3, <2>3
      <3>2. (Turn + Turn) % Turn = 0
        BY <1>1
      <3>. QED
        BY <2>3, <3>1, <3>2
    <2>. QED
      BY <2>1, <2>2, <2>3
  <1>5. pointed = e
    <2>1. CASE e = 0
      <3>1. Turn + 0 - rotation = Turn
        BY <1>1, <1>4, <2>1
      <3>. QED
        BY <1>2, <2>1, <3>1
    <2>2. CASE e # 0
      <3>1. Turn + 0 - rotation = e
        <4>. HIDE DEF rotation
        <4>. QED
          BY <1>1, <1>4, <2>2
      <3>. QED
        BY <1>1, <3>1, WithinTurn
    <2>. QED
      BY <2>1, <2>2
  <1>6. s <= pointed /\ pointed < s + z
    BY <1>1, <1>5
  <1>. QED
    BY <1>6

LEMMA RotationType ==
  ASSUME page \in Pages, page.kind = "wheel", NEW w \in Published, NEW i \in 1..Len(w),
         NEW spare \in Int, NEW nudge \in Nudge(w, i)
  PROVE  (Turn + spare + Landing(w, i) + nudge) % Turn \in 0..(Turn - 1)
  <1>1. w \in Seq(Slices)
    BY PublishedWheels
  <1>2. Start(w, i) \in Nat /\ w[i].size \in Nat /\ page.pointer \in Int /\ Turn \in Nat
    BY <1>1, SlicesApart, PageFacts, WebAssumption
  <1>3. Turn + page.pointer - Start(w, i) - w[i].size \div 2 \in Int
    BY <1>2
  <1>4. Landing(w, i) \in Int
    BY <1>3, WithinTurn DEF Landing
  <1>5. nudge \in Int
    BY DEF Nudge
  <1>6. Turn + spare + Landing(w, i) + nudge \in Int
    BY <1>2, <1>4, <1>5
  <1>. QED
    BY <1>6, WithinTurn

\* On a valid wheel the pointer ends on the first slice of the prize, and on no other.
LEMMA WheelLands ==
  ASSUME page \in Pages, page' = page, page.kind = "wheel", page.whole,
         NEW w \in Published, Valid(w),
         NEW prize, \E i \in DOMAIN w : w[i].prize = prize,
         NEW spare \in Spare, NEW nudge \in Nudge(w, First(w, prize)),
         wheel'.rotation = (Turn + spare + Landing(w, First(w, prize)) + nudge) % Turn
  PROVE  Under(w)' = {prize}
  <1>. DEFINE i == First(w, prize)
              pointed == (Turn + 0 - wheel'.rotation) % Turn
  <1>1. w \in Seq(Slices) /\ DOMAIN w = 1..Len(w) /\ Len(w) \in Nat
    BY PublishedWheels
  <1>2. i \in 1..Len(w) /\ w[i].prize = prize
    BY <1>1, FirstFound
  <1>3. /\ Start(w, i) \in Nat /\ w[i].size \in Nat /\ w[i].size > 0
        /\ Start(w, i) + w[i].size <= Turn
    <2>1. /\ Start(w, i) \in Nat /\ w[i].size \in Nat
          /\ Start(w, i) + w[i].size <= Sized(w)
      BY <1>1, <1>2, SlicesApart
    <2>2. w[i].size > 0 /\ Sized(w) = Turn
      BY <1>1, <1>2 DEF Valid
    <2>. QED
      BY <2>1, <2>2
  <1>4. page.pointer = 0 /\ spare = 0
    BY PageFacts DEF Spare
  <1>5. Start(w, i) <= pointed /\ pointed < Start(w, i) + w[i].size
    <2>1. nudge \in (-((3 * w[i].size) \div 20))..((3 * w[i].size) \div 20)
      BY DEF Nudge
    <2>2. wheel'.rotation = (Turn + 0 + ((Turn + 0 - Start(w, i) - w[i].size \div 2) % Turn) + nudge) % Turn
      BY <1>4 DEF Landing
    <2>3. w[i].size \in Nat \ {0}
      BY <1>3
    <2>. HIDE DEF i
    <2>. QED
      BY <1>3, <2>1, <2>2, <2>3, PointerOnSlice
  <1>6. pointed \in Int
    <2>1. wheel'.rotation \in 0..(Turn - 1)
      BY <1>2, <1>4, RotationType
    <2>2. Turn + 0 - wheel'.rotation \in Int
      BY <2>1, WebAssumption
    <2>. QED
      BY <2>2, WithinTurn
  <1>7. ASSUME NEW j \in 1..Len(w), j # i
        PROVE  ~(Start(w, j) <= pointed /\ pointed < Start(w, j) + w[j].size)
    <2>1. /\ Start(w, j) \in Nat /\ w[j].size \in Nat
          /\ j < i => Start(w, j) + w[j].size <= Start(w, i)
      BY <1>1, <1>2, SlicesApart
    <2>2. i < j => Start(w, i) + w[i].size <= Start(w, j)
      BY <1>1, <1>2, SlicesApart
    <2>3. i \in Nat /\ j \in Nat
      BY <1>1, <1>2
    <2>. HIDE DEF i, pointed
    <2>. QED
      BY <1>3, <1>5, <1>6, <1>7, <2>1, <2>2, <2>3
  <1>8. Under(w)' = {w[j].prize : j \in {k \in DOMAIN w : Start(w, k) <= pointed /\ pointed < Start(w, k) + w[k].size}}
    BY <1>4 DEF Under, Start, Units
  <1>9. {k \in DOMAIN w : Start(w, k) <= pointed /\ pointed < Start(w, k) + w[k].size} = {i}
    <2>. HIDE DEF i, pointed
    <2>. QED
      BY <1>1, <1>2, <1>5, <1>7
  <1>. QED
    BY <1>2, <1>8, <1>9

------------------------------------------------------------------------------
(* The types.                                                              *)

LEMMA RequestFacts ==
  ASSUME page \in Pages, NEW q, NEW n \in Nat, IsRequest(q, n)
  PROVE  /\ q.op \in OpsOf(page.kind) /\ q \in RequestOf(q.op)
         /\ q.tok \in 0..n /\ q.arg \in ArgOf(q.op) /\ q.answer \in AnswerOf(q.op)
         /\ q.how \in {None, "reread", "before", "after"} /\ q.state \in {"out", "back", "denied"}
         /\ q.late \in BOOLEAN /\ q.crossed \in BOOLEAN
         /\ q.late => q.op = "load"
         /\ q.state = "denied" => q.op \in Guarded
         /\ q.state # "back" => q.answer = None
         /\ q.op = "act" => q.how \in page.acts
  BY DEF IsRequest, RequestOf

\* The token of a request that was not refused was issued.
LEMMA TokenIssued ==
  ASSUME TypeOK, NEW q, IsRequest(q, Len(owner)), q.tok # 0
  PROVE  q.tok \in DOMAIN owner /\ owner[q.tok] \in User
  <1>1. Len(owner) \in Nat /\ page \in Pages /\ owner \in Seq(User)
    BY DEF TypeOK
  <1>2. q.tok \in 1..Len(owner)
    BY <1>1, RequestFacts
  <1>. QED
    BY <1>1, <1>2

LEMMA AnswerType ==
  ASSUME TypeOK, NEW q, IsRequest(q, Len(owner)), ~(q.op \in Guarded /\ q.tok \in dead \cup {0}),
         NEW a \in Answers(q)
  PROVE  /\ a \in AnswerOf(q.op)
         /\ q.op = "act" /\ a # None => a = [user |-> owner[q.tok], value |-> q.arg] /\ a \in Account
         /\ q.op = "load" => a = [user |-> owner[q.tok], value |-> stored[owner[q.tok]]]
  <1>1. Len(owner) \in Nat /\ page \in Pages
    BY DEF TypeOK
  <1>2. q.op \in OpsOf(page.kind) /\ q.arg \in ArgOf(q.op)
    BY <1>1, RequestFacts
  <1>3. CASE q.op = "load"
    <2>1. owner[q.tok] \in User
      BY <1>3, TokenIssued DEF Guarded
    <2>2. a = [user |-> owner[q.tok], value |-> stored[owner[q.tok]]]
      BY <1>3 DEF Answers
    <2>. QED
      BY <1>3, <2>1, <2>2 DEF AnswerOf, Account, TypeOK
  <1>4. CASE q.op = "act"
    <2>1. owner[q.tok] \in User
      BY <1>4, TokenIssued DEF Guarded
    <2>2. a \in {None, [user |-> owner[q.tok], value |-> q.arg]} /\ q.arg \in Value
      BY <1>2, <1>4 DEF Answers, ArgOf
    <2>. QED
      BY <1>4, <2>1, <2>2 DEF AnswerOf, Account
  <1>5. CASE q.op = "config"
    BY <1>5 DEF Answers, AnswerOf, TypeOK, WheelType
  <1>6. CASE q.op = "play"
    <2>1. wheel.published \in Published /\ wheel.published \in Seq(Slices)
      BY PublishedWheels DEF TypeOK, WheelType
    <2>2. CASE a = None
      BY <1>6, <2>2 DEF AnswerOf
    <2>3. CASE a # None
      <3>1. PICK slice \in Range(wheel.published) : a = [slots |-> wheel.published, won |-> slice.prize]
        BY <1>6, <2>3 DEF Answers
      <3>2. PICK i \in DOMAIN wheel.published : slice = wheel.published[i]
        BY DEF Range
      <3>3. slice \in Slices
        BY <2>1, <3>2
      <3>4. a \in Spun
        BY <2>1, <3>1, <3>2, <3>3 DEF Spun, Slices
      <3>. QED
        BY <1>6, <3>4 DEF AnswerOf
    <2>. QED
      BY <2>2, <2>3
  <1>7. CASE q.op \in {"networks", "detect", "bundles", "initiate"}
    BY <1>2, <1>7 DEF Answers, AnswerOf, ArgOf
  <1>8. CASE q.op = "status"
    BY <1>8 DEF Answers, AnswerOf, TypeOK, ReceiptType
  <1>9. q.op \in {"load", "act", "config", "play", "networks", "detect", "bundles", "initiate", "status"}
    BY <1>1, <1>2, PageFacts DEF OpsOf
  <1>. QED
    BY <1>3, <1>4, <1>5, <1>6, <1>7, <1>8, <1>9

\* The forms in which a single request is changed.
LEMMA CallChanged ==
  ASSUME TypeOK, NEW calls, NEW n \in Nat, IsCalls(calls, n), NEW c \in Call, calls[c] # None
  PROVE  /\ IsCalls([calls EXCEPT ![c] = None], n)
         /\ calls[c].op \in Guarded /\ calls[c].answer = None
               => IsCalls([calls EXCEPT ![c].state = "denied"], n)
         /\ \A a \in AnswerOf(calls[c].op) :
               IsCalls([calls EXCEPT ![c].state = "back", ![c].answer = a], n)
         /\ IsCalls([calls EXCEPT ![c] = [@ EXCEPT !.state = "back", !.answer = None, !.crossed = IsData]], n)
  <1>1. page \in Pages /\ IsRequest(calls[c], n) /\ IsData \in BOOLEAN
    BY DEF TypeOK, IsCalls, IsData
  <1>2. IsCalls([calls EXCEPT ![c] = None], n)
    BY CallsChanged
  <1>3. calls[c].op \in Guarded /\ calls[c].answer = None
        => IsCalls([calls EXCEPT ![c].state = "denied"], n)
    BY <1>1, RequestMarked, CallsChanged
  <1>4. ASSUME NEW a \in AnswerOf(calls[c].op)
        PROVE  IsCalls([calls EXCEPT ![c].state = "back", ![c].answer = a], n)
    <2>. DEFINE q == [calls[c] EXCEPT !.state = "back", !.answer = a]
    <2>1. IsRequest(q, n)
      BY <1>1, RequestMarked
    <2>2. [calls EXCEPT ![c].state = "back", ![c].answer = a] = [calls EXCEPT ![c] = q]
      BY DEF IsCalls
    <2>3. IsCalls([calls EXCEPT ![c] = q], n)
      <3>. HIDE DEF q
      <3>. QED
        BY <2>1, CallsChanged
    <2>. QED
      BY <2>2, <2>3
  <1>5. IsCalls([calls EXCEPT ![c] = [@ EXCEPT !.state = "back", !.answer = None, !.crossed = IsData]], n)
    BY <1>1, RequestMarked, CallsChanged
  <1>. QED
    BY <1>2, <1>3, <1>4, <1>5

\* What the page asks for as it opens.
LEMMA MountedCalls ==
  ASSUME TypeOK, NEW calls, NEW n \in Nat, IsCalls(calls, n), NEW tok \in 0..n, Mounted(calls, tok)
  PROVE  IsCalls(call', n)
  <1>1. page \in Pages
    BY DEF TypeOK
  <1>2. CASE IsData /\ page.opens
    <2>1. With(RequestWith("load", None, None, tok), calls)
      BY <1>2 DEF Mounted, InStore, IsData
    <2>2. "load" \in OpsOf(page.kind) /\ None \in ArgOf("load")
      BY <1>2 DEF OpsOf, ArgOf, IsData
    <2>. QED
      BY <1>1, <2>1, <2>2, Sent
  <1>3. CASE InStore
    BY <1>3 DEF Mounted, InStore, IsData
  <1>4. CASE page.kind = "wheel"
    <2>1. With(RequestWith("config", None, None, tok), calls)
      BY <1>4 DEF Mounted, IsData, InStore
    <2>2. "config" \in OpsOf(page.kind) /\ None \in ArgOf("config")
      BY <1>4 DEF OpsOf, ArgOf
    <2>. QED
      BY <1>1, <2>1, <2>2, Sent
  <1>5. CASE page.kind = "recharge"
    <2>1. With(RequestWith("networks", None, None, 0), calls)
      BY <1>5 DEF Mounted, IsData, InStore, Request, Public
    <2>2. "networks" \in OpsOf(page.kind) /\ None \in ArgOf("networks")
      BY <1>5 DEF OpsOf, ArgOf
    <2>. QED
      BY <1>1, <2>1, <2>2, Sent
  <1>. QED
    BY <1>1, <1>2, <1>3, <1>4, <1>5, PageFacts DEF InStore, IsData

\* A request sent with the token of the client.
LEMMA SentNow ==
  ASSUME TypeOK, NEW calls, IsCalls(calls, Len(owner)), NEW op \in OpsOf(page.kind),
         NEW arg \in ArgOf(op), NEW how \in {None, "reread", "before", "after"},
         op = "act" => how \in page.acts, With(Request(op, arg, how), calls)
  PROVE  /\ IsCalls(call', Len(owner))
         /\ \E c \in Free : /\ call' = [calls EXCEPT ![c] = Request(op, arg, how)]
                            /\ call'[c] = Request(op, arg, how) /\ call'[c] # None
                            /\ \A d \in Call \ {c} : call'[d] = calls[d]
  <1>. DEFINE tok == IF op \in Public THEN 0 ELSE token
  <1>1. page \in Pages /\ Len(owner) \in Nat /\ tok \in 0..Len(owner)
    BY DEF TypeOK
  <1>2. Request(op, arg, how) = RequestWith(op, arg, how, tok)
    BY DEF Request
  <1>. HIDE DEF tok
  <1>. QED
    BY <1>1, <1>2, Sent

\* The offers of a network are asked for only if there is a network.
LEMMA ChangedCalls ==
  ASSUME TypeOK, page.kind = "recharge", NEW calls, IsCalls(calls, Len(owner)),
         NEW f, f.network \in Bundle, Changed(f, calls)
  PROVE  IsCalls(call', Len(owner))
  <1>1. CASE call' = calls
    BY <1>1
  <1>2. CASE f.network # None /\ With(Request("bundles", f.network, None), calls)
    <2>1. "bundles" \in OpsOf(page.kind) /\ f.network \in ArgOf("bundles")
      BY <1>2 DEF OpsOf, ArgOf, Bundle
    <2>. QED
      BY <1>2, <2>1, SentNow
  <1>. QED
    BY <1>1, <1>2 DEF Changed, BundlesFetched

\* Whatever the step, requests stay well-formed.
LEMMA CallsStep ==
  ASSUME TypeOK, [Next]_vars
  PROVE  IsCalls(call', Len(owner')) /\ page' = page
  <1>. DEFINE n == Len(owner)
  <1>1. /\ page \in Pages /\ n \in Nat /\ owner \in Seq(User) /\ IsCalls(call, n)
        /\ token \in 0..n /\ held \in 0..n /\ Restored \in 0..n
    BY DEF TypeOK, Restored
  <1>2. IsCalls(NoCalls, n) /\ IsCalls(Cross(call), n) /\ IsCalls(CrossAll(call), n) /\ IsCalls(Superseded, n)
    BY <1>1, CallsMarked, CallsSuperseded
  <1>3. \A c \in Call : call[c] # None => IsRequest(call[c], n) /\ IsCalls([call EXCEPT ![c] = None], n)
    BY <1>1, CallChanged DEF IsCalls
  <1>4. \A c \in Call : IsCalls([Cross(call) EXCEPT ![c] = None], n)
    BY <1>1, <1>2, CallsChanged
  <1>5. IsData => "load" \in OpsOf(page.kind) /\ None \in ArgOf("load")
    BY DEF IsData, OpsOf, ArgOf
  <1>6. ASSUME owner' = owner, page' = page, IsCalls(call', n)
        PROVE  IsCalls(call', Len(owner')) /\ page' = page
    BY <1>6
  <1>10. ASSUME NEW c \in Call, Serve(c)
         PROVE  IsCalls(call', Len(owner')) /\ page' = page
    <2>. DEFINE q == call[c]
    <2>1. /\ call[c] # None /\ call[c].state = "out" /\ owner' = owner /\ page' = page
      BY <1>10 DEF Serve, session
    <2>2. IsRequest(q, n) /\ q.answer = None
      BY <1>1, <1>3, <2>1, RequestFacts
    <2>3. CASE q.op \in Guarded /\ q.tok \in dead \cup {0}
      <3>1. call' = [call EXCEPT ![c].state = "denied"]
        BY <1>10, <2>3 DEF Serve
      <3>. QED
        BY <1>1, <1>6, <2>1, <2>2, <2>3, <3>1, CallChanged
    <2>4. CASE ~(q.op \in Guarded /\ q.tok \in dead \cup {0}) /\ q.late
      <3>1. call' = [call EXCEPT ![c] = None]
        BY <1>10, <2>4 DEF Serve, Ends
      <3>. QED
        BY <1>3, <1>6, <2>1, <3>1
    <2>5. CASE ~(q.op \in Guarded /\ q.tok \in dead \cup {0}) /\ ~q.late
      <3>1. PICK a \in Answers(q) :
               IF q.op = "act" /\ a # None
               THEN call' = [Cross(call) EXCEPT ![c].state = "back", ![c].answer = a]
               ELSE call' = [call EXCEPT ![c].state = "back", ![c].answer = a]
        BY <1>10, <2>5 DEF Serve
      <3>2. a \in AnswerOf(q.op)
        BY <2>2, <2>5, AnswerType
      <3>3. Cross(call)[c] = call[c]
        BY <2>1 DEF Cross
      <3>4. CASE call' = [call EXCEPT ![c].state = "back", ![c].answer = a]
        BY <1>1, <1>6, <2>1, <3>2, <3>4, CallChanged
      <3>5. CASE call' = [Cross(call) EXCEPT ![c].state = "back", ![c].answer = a]
        BY <1>1, <1>2, <1>6, <2>1, <3>2, <3>3, <3>5, CallChanged
      <3>. QED
        BY <3>1, <3>4, <3>5
    <2>. QED
      BY <2>3, <2>4, <2>5
  <1>11. ASSUME NEW c \in Call, Lost(c)
         PROVE  IsCalls(call', Len(owner')) /\ page' = page
    <2>1. call[c] # None /\ owner' = owner /\ page' = page
      BY <1>11 DEF Lost, session
    <2>2. CASE call[c].late
      <3>1. call' = [call EXCEPT ![c] = None]
        BY <1>11, <2>2 DEF Lost
      <3>. QED
        BY <1>3, <1>6, <2>1, <3>1
    <2>3. CASE ~call[c].late
      <3>1. call' = [call EXCEPT ![c] = [@ EXCEPT !.state = "back", !.answer = None, !.crossed = IsData]]
        BY <1>11, <2>3 DEF Lost
      <3>. QED
        BY <1>1, <1>6, <2>1, <3>1, CallChanged
    <2>. QED
      BY <2>2, <2>3
  <1>12. ASSUME NEW c \in Call, Unauthorized(c)
         PROVE  IsCalls(call', Len(owner')) /\ page' = page
    <2>1. IsCalls([call EXCEPT ![c] = None], n) /\ owner' = owner /\ page' = page
      BY <1>3, <1>12 DEF Unauthorized, SignedOut
    <2>2. call' \in {CrossAll([call EXCEPT ![c] = None]), NoCalls, [call EXCEPT ![c] = None]}
      BY <1>12 DEF Unauthorized, SignedOut, Ends
    <2>. QED
      BY <1>1, <1>2, <1>6, <2>1, <2>2, CallsMarked
  <1>13. ASSUME NEW c \in Call, LoadAnswered(c) \/ ConfigAnswered(c) \/ SpinAnswered(c) \/ ActFails(c)
                                \/ BundlesAnswered(c) \/ InitiateAnswered(c) \/ PollAnswered(c)
         PROVE  IsCalls(call', Len(owner')) /\ page' = page
    <2>1. /\ call[c] # None /\ owner' = owner /\ page' = page
          /\ call' \in {[Cross(call) EXCEPT ![c] = None], [call EXCEPT ![c] = None], NoCalls}
      BY <1>13 DEF LoadAnswered, ConfigAnswered, SpinAnswered, ActFails, BundlesAnswered, InitiateAnswered,
                   PollAnswered, Ends, session, Back
    <2>. QED
      BY <1>2, <1>3, <1>4, <1>6, <2>1
  <1>14. ASSUME NEW c \in Call, ActAnswered(c)
         PROVE  IsCalls(call', Len(owner')) /\ page' = page
    <2>1. /\ call[c] # None /\ call[c].op = "act" /\ owner' = owner /\ page' = page
          /\ \/ call' = [call EXCEPT ![c] = None]
             \/ call' = [Superseded EXCEPT ![c] = Reading]
      BY <1>14 DEF ActAnswered, Ends, session, Back
    <2>2. IsData
      BY <1>1, <1>3, <2>1, RequestFacts, OpFacts
    <2>3. Reading = RequestWith("load", None, None, token)
      BY DEF Reading, Request, Public
    <2>4. IsRequest(Reading, n)
      BY <1>1, <1>5, <2>2, <2>3, NewRequest
    <2>5. IsCalls([Superseded EXCEPT ![c] = Reading], n)
      BY <1>1, <1>2, <2>4, CallsChanged
    <2>. QED
      BY <1>3, <1>6, <2>1, <2>5
  <1>15. ASSUME NEW c \in Call, NetworksAnswered(c) \/ DetectAnswered(c)
         PROVE  IsCalls(call', Len(owner')) /\ page' = page
    <2>1. /\ call[c] # None /\ owner' = owner /\ page' = page /\ page.kind = "recharge"
          /\ call[c].op \in {"networks", "detect"}
      BY <1>15 DEF NetworksAnswered, DetectAnswered, session, Back, OnForm
    <2>2. call[c].answer \in AnswerOf(call[c].op)
      BY <1>1, <1>3, <2>1, RequestFacts
    <2>3. \/ call' = [call EXCEPT ![c] = None]
          \/ \E m \in Network : Changed([form EXCEPT !.network = m], [call EXCEPT ![c] = None])
      <3>1. CASE NetworksAnswered(c)
        BY <2>2, <3>1 DEF NetworksAnswered, Ends, AnswerOf, Back
      <3>2. CASE DetectAnswered(c)
        BY <2>2, <3>2 DEF DetectAnswered, Ends, AnswerOf, Back
      <3>. QED
        BY <1>15, <3>1, <3>2
    <2>4. ASSUME NEW m \in Network, Changed([form EXCEPT !.network = m], [call EXCEPT ![c] = None])
          PROVE  IsCalls(call', n)
      <3>1. [form EXCEPT !.network = m].network \in Bundle
        BY DEF TypeOK, FormType, Bundle
      <3>. QED
        BY <1>3, <2>1, <2>4, <3>1, ChangedCalls
    <2>. QED
      BY <1>3, <1>6, <2>1, <2>3, <2>4
  <1>16. ASSUME Open \/ Leave \/ BrowserReload \/ PaymentReturned
         PROVE  IsCalls(call', Len(owner')) /\ page' = page
    <2>1. /\ owner' = owner /\ page' = page
          /\ \/ Mounted(Superseded, token)
             \/ Mounted(NoCalls, Restored)
             \/ call' = call
             \/ call' = NoCalls
      BY <1>16 DEF Open, Leave, BrowserReload, PaymentReturned, session
    <2>. QED
      BY <1>1, <1>2, <1>6, <2>1, MountedCalls
  <1>17. ASSUME NEW u \in User, Login(u)
         PROVE  IsCalls(call', Len(owner')) /\ page' = page
    <2>1. /\ page' = page /\ owner' = Append(owner, u) /\ token' = Len(owner')
          /\ IF InStore THEN With(RequestWith("load", None, None, token'), CrossAll(call))
                        ELSE call' = CrossAll(call)
      BY <1>17 DEF Login
    <2>2. Len(owner') = n + 1 /\ n + 1 \in Nat /\ token' \in 0..(n + 1)
      BY <1>1, <2>1
    <2>3. IsCalls(CrossAll(call), n + 1)
      BY <1>1, <1>2, MoreTokens
    <2>4. CASE InStore
      <3>1. "load" \in OpsOf(page.kind) /\ None \in ArgOf("load")
        BY <1>5, <2>4 DEF InStore
      <3>2. IsCalls(call', n + 1)
        BY <1>1, <2>1, <2>2, <2>3, <2>4, <3>1, Sent
      <3>. QED
        BY <2>1, <2>2, <3>2
    <2>. QED
      BY <2>1, <2>2, <2>3, <2>4
  <1>18. ASSUME NEW cleared \in BOOLEAN, SignOut(cleared)
         PROVE  IsCalls(call', Len(owner')) /\ page' = page
    <2>1. call' \in {CrossAll(call), NoCalls} /\ owner' = owner /\ page' = page
      BY <1>18 DEF SignOut, SignedOut
    <2>. QED
      BY <1>2, <1>6, <2>1
  <1>19. ASSUME Refetch
         PROVE  IsCalls(call', Len(owner')) /\ page' = page
    <2>1. IsData /\ owner' = owner /\ page' = page /\ With(Request("load", None, None), Superseded)
      BY <1>19 DEF Refetch, session, Reading
    <2>. QED
      BY <1>2, <1>5, <1>6, <2>1, SentNow
  <1>20. ASSUME NEW v \in Value, NEW how \in {"reread", "before", "after"}, Act(v, how)
         PROVE  IsCalls(call', Len(owner')) /\ page' = page
    <2>1. /\ IsData /\ owner' = owner /\ page' = page /\ how \in page.acts
          /\ With(Request("act", v, how), call)
      BY <1>20 DEF Act, session, Send
    <2>2. "act" \in OpsOf(page.kind) /\ v \in ArgOf("act")
      BY <2>1 DEF OpsOf, ArgOf, IsData
    <2>. QED
      BY <1>1, <1>6, <2>1, <2>2, SentNow
  <1>21. ASSUME NEW u \in User, NEW v \in Value, OthersWrite(u, v)
         PROVE  IsCalls(call', Len(owner')) /\ page' = page
    BY <1>2, <1>6, <1>21 DEF OthersWrite, session
  <1>22. ASSUME Spin \/ Detect \/ Submit \/ Poll
         PROVE  IsCalls(call', Len(owner')) /\ page' = page
    <2>1. owner' = owner /\ page' = page
      BY <1>22 DEF Spin, Detect, Submit, Poll, session
    <2>2. CASE Spin
      <3>1. With(Request("play", None, None), call)
        BY <2>2 DEF Spin, Send
      <3>2. "play" \in OpsOf(page.kind) /\ None \in ArgOf("play")
        BY <2>2 DEF Spin, OnWheel, OpsOf, ArgOf
      <3>. QED
        BY <1>1, <1>6, <2>1, <3>1, <3>2, SentNow
    <2>3. CASE Detect
      <3>1. PICK chosen \in form.waiting : With(Request("detect", chosen, None), call)
        BY <2>3 DEF Detect, Send
      <3>2. "detect" \in OpsOf(page.kind) /\ chosen \in ArgOf("detect")
        BY <2>3 DEF Detect, Filling, OnForm, OpsOf, ArgOf, TypeOK, FormType
      <3>. QED
        BY <1>1, <1>6, <2>1, <3>1, <3>2, SentNow
    <2>4. CASE Submit
      <3>. DEFINE order1 == [network |-> form.network, kind |-> form.kind, bundle |-> form.bundle,
                             late |-> form.late]
      <3>1. With(Request("initiate", order1, None), call)
        BY <2>4 DEF Submit, Send
      <3>2. order1 \in Order
        BY <2>4 DEF Submit, TypeOK, FormType, Order, Bundle
      <3>3. "initiate" \in OpsOf(page.kind) /\ order1 \in ArgOf("initiate")
        BY <2>4, <3>2 DEF Submit, Filling, OnForm, OpsOf, ArgOf
      <3>. QED
        BY <1>1, <1>6, <2>1, <3>1, <3>3, SentNow
    <2>5. CASE Poll
      <3>1. With(Request("status", None, None), call)
        BY <2>5 DEF Poll, Send
      <3>2. "status" \in OpsOf(page.kind) /\ None \in ArgOf("status")
        BY <2>5 DEF Poll, OnForm, OpsOf, ArgOf
      <3>. QED
        BY <1>1, <1>6, <2>1, <3>1, <3>2, SentNow
    <2>. QED
      BY <1>22, <2>2, <2>3, <2>4, <2>5
  <1>23. ASSUME \/ \E digits \in {"few", "most", "all"} : Type(digits)
                \/ \E m \in Network : ChooseNetwork(m)
                \/ \E kind \in {"airtime", "data"} : ChooseType(kind)
         PROVE  IsCalls(call', Len(owner')) /\ page' = page
    <2>1. owner' = owner /\ page' = page /\ page.kind = "recharge"
      BY <1>23 DEF Type, ChooseNetwork, ChooseType, Filling, OnForm, session
    <2>2. \E f : f.network \in Bundle /\ Changed(f, call)
      <3>1. form \in FormType
        BY DEF TypeOK
      <3>2. ASSUME NEW digits \in {"few", "most", "all"}, Type(digits)
            PROVE  \E f : f.network \in Bundle /\ Changed(f, call)
        <4>1. CASE digits = "all"
          <5>1. Changed([form EXCEPT !.number = TRUE, !.waiting = {form.network}], call)
            BY <3>2, <4>1 DEF Type
          <5>. QED
            BY <3>1, <5>1 DEF FormType
        <4>2. CASE digits = "most"
          <5>1. Changed([form EXCEPT !.number = FALSE], call)
            BY <3>2, <4>2 DEF Type
          <5>. QED
            BY <3>1, <5>1 DEF FormType
        <4>3. CASE digits = "few"
          <5>1. Changed([form EXCEPT !.number = FALSE, !.network = None], call)
            BY <3>2, <4>3 DEF Type
          <5>. QED
            BY <3>1, <5>1 DEF FormType, Bundle
        <4>. QED
          BY <4>1, <4>2, <4>3
      <3>3. ASSUME NEW m \in Network, ChooseNetwork(m)
            PROVE  \E f : f.network \in Bundle /\ Changed(f, call)
        <4>1. Changed([form EXCEPT !.network = m, !.bundle = None], call)
          BY <3>3 DEF ChooseNetwork
        <4>. QED
          BY <3>1, <4>1 DEF FormType, Bundle
      <3>4. ASSUME NEW kind \in {"airtime", "data"}, ChooseType(kind)
            PROVE  \E f : f.network \in Bundle /\ Changed(f, call)
        <4>1. Changed([form EXCEPT !.kind = kind, !.bundle = None], call)
          BY <3>4 DEF ChooseType
        <4>. QED
          BY <3>1, <4>1 DEF FormType
      <3>. QED
        BY <1>23, <3>2, <3>3, <3>4
    <2>. QED
      BY <1>1, <1>6, <2>1, <2>2, ChangedCalls
  <1>24. ASSUME \/ \E m \in DOMAIN owner : Expires(m)
                \/ Stops \/ Reset \/ (\E i \in DOMAIN Wheels : Publish(Wheels[i]))
                \/ ChooseBundle \/ (\E status \in Settled : RechargeSettles(status))
                \/ UNCHANGED vars
         PROVE  IsCalls(call', Len(owner')) /\ page' = page
    <2>1. owner' = owner /\ page' = page /\ call' = call
      BY <1>24 DEF Expires, Stops, Reset, Publish, ChooseBundle, RechargeSettles, vars, session
    <2>. QED
      BY <1>1, <1>6, <2>1
  <1>. QED
    BY <1>10, <1>11, <1>12, <1>13, <1>14, <1>15, <1>16, <1>17, <1>18, <1>19, <1>20, <1>21, <1>22, <1>23, <1>24
       DEF Next, Requests, Session, Data, TheWheel, Recharge

\* What a page has on the wheel and in its form is emptied when it is left.
LEMMA EmptiedTypes ==
  ASSUME TypeOK, Emptied
  PROVE  wheel' \in WheelType /\ form' \in FormType /\ receipt' \in ReceiptType
  BY WebAssumption DEF TypeOK, Emptied, EmptyWheel, EmptyForm, NoReceipt, WheelType, FormType,
                       ReceiptType, Bundle

\* The form after an effect of its network or kind.
LEMMA ChangedForm ==
  ASSUME NEW calls, NEW f \in FormType, Changed(f, calls)
  PROVE  /\ form' \in FormType
         /\ \/ form' = f /\ f.network = form.network /\ f.kind = form.kind
            \/ form' = [f EXCEPT !.offers = None, !.bundle = None, !.late = FALSE]
  <1>. DEFINE emptied == [f EXCEPT !.offers = None, !.bundle = None, !.late = FALSE]
  <1>1. emptied \in FormType
    BY DEF FormType, Bundle
  <1>2. CASE f.network # form.network \/ f.kind # form.kind
    <2>1. form' = emptied
      BY <1>2 DEF Changed, BundlesFetched
    <2>. QED
      BY <1>1, <2>1
  <1>3. CASE ~(f.network # form.network \/ f.kind # form.kind)
    <2>1. form' = f
      BY <1>3 DEF Changed
    <2>. QED
      BY <1>3, <2>1
  <1>. QED
    BY <1>2, <1>3

\* Types of the session and of the data shown.
LEMMA SessionTypes ==
  ASSUME TypeOK, [Next]_vars
  PROVE  /\ at' \in {"home", "page"} /\ owner' \in Seq(User) /\ dead' \subseteq DOMAIN owner'
         /\ held' \in 0..Len(owner') /\ token' \in 0..Len(owner')
         /\ stored' \in [User -> Value] /\ shown' \in Account \cup {None} /\ excused' \in BOOLEAN
  <1>. DEFINE Goal == /\ at' \in {"home", "page"} /\ owner' \in Seq(User) /\ dead' \subseteq DOMAIN owner'
                      /\ held' \in 0..Len(owner') /\ token' \in 0..Len(owner')
                      /\ stored' \in [User -> Value] /\ shown' \in Account \cup {None} /\ excused' \in BOOLEAN
  <1>1. /\ page \in Pages /\ at \in {"home", "page"} /\ owner \in Seq(User) /\ dead \subseteq DOMAIN owner
        /\ held \in 0..Len(owner) /\ token \in 0..Len(owner) /\ Len(owner) \in Nat
        /\ stored \in [User -> Value] /\ shown \in Account \cup {None} /\ excused \in BOOLEAN
    BY DEF TypeOK
  <1>2. ASSUME NEW c \in Call, call[c] # None
        PROVE  /\ IsRequest(call[c], Len(owner)) /\ call[c].answer \in AnswerOf(call[c].op)
               /\ call[c].crossed \in BOOLEAN
    BY <1>1, <1>2, RequestFacts DEF TypeOK, IsCalls
  <1>3. ASSUME UNCHANGED <<session, data>>, at' \in {"home", "page"}
        PROVE  Goal
    BY <1>1, <1>3 DEF session, data
  <1>4. ASSUME NEW c \in Call, Serve(c)
        PROVE  Goal
    <2>. DEFINE q == call[c]
    <2>1. UNCHANGED <<at, session, shown, excused>> /\ call[c] # None
      BY <1>4 DEF Serve
    <2>2. CASE stored' = stored
      BY <1>1, <2>1, <2>2 DEF session
    <2>3. CASE stored' # stored
      <3>1. ~(q.op \in Guarded /\ q.tok \in dead \cup {0}) /\ q.op = "act"
        BY <1>4, <2>3 DEF Serve
      <3>2. PICK a \in Answers(q) : a # None /\ stored' = [stored EXCEPT ![a.user] = a.value]
        BY <1>4, <2>3, <3>1 DEF Serve
      <3>3. a \in Account
        BY <1>2, <2>1, <3>1, <3>2, AnswerType
      <3>4. a.user \in User /\ a.value \in Value
        BY <3>3 DEF Account
      <3>5. stored' \in [User -> Value]
        BY <1>1, <3>2, <3>4
      <3>. QED
        BY <1>1, <2>1, <3>5 DEF session
    <2>. QED
      BY <2>2, <2>3
  <1>5. ASSUME NEW c \in Call, Unauthorized(c)
        PROVE  Goal
    <2>1. /\ UNCHANGED <<owner, dead, stored>> /\ held' \in {held, 0} /\ token' \in {token, 0}
          /\ at' \in {at, "home"}
      BY <1>5 DEF Unauthorized, SignedOut
    <2>2. shown' \in {shown, None} /\ excused' \in {excused, TRUE, FALSE}
      BY <1>5 DEF Unauthorized, SignedOut
    <2>3. held' \in 0..Len(owner') /\ token' \in 0..Len(owner')
      BY <1>1, <2>1
    <2>4. shown' \in Account \cup {None}
      BY <1>1, <2>2
    <2>5. excused' \in BOOLEAN
      BY <1>1, <2>2
    <2>6. /\ at' \in {"home", "page"} /\ owner' \in Seq(User) /\ dead' \subseteq DOMAIN owner'
          /\ stored' \in [User -> Value]
      BY <1>1, <2>1
    <2>. QED
      BY <2>3, <2>4, <2>5, <2>6
  <1>6. ASSUME NEW c \in Call, LoadAnswered(c)
        PROVE  Goal
    <2>1. call[c] # None /\ call[c].op = "load" /\ UNCHANGED <<at, session, stored>>
      BY <1>6 DEF LoadAnswered, Back
    <2>2. call[c].answer \in Account \cup {None} /\ call[c].crossed \in BOOLEAN
      BY <1>2, <2>1 DEF AnswerOf
    <2>3. shown' \in Account \cup {None}
      BY <1>1, <1>6, <2>2 DEF LoadAnswered
    <2>4. excused' \in BOOLEAN
      BY <1>6 DEF LoadAnswered
    <2>. QED
      BY <1>1, <2>1, <2>3, <2>4 DEF session
  <1>7. ASSUME NEW c \in Call, ActAnswered(c)
        PROVE  Goal
    <2>1. call[c] # None /\ call[c].op = "act" /\ UNCHANGED <<at, session, stored>>
      BY <1>7 DEF ActAnswered, Back
    <2>2. call[c].answer \in Account \cup {None} /\ call[c].crossed \in BOOLEAN
      BY <1>2, <2>1 DEF AnswerOf
    <2>3. \/ shown' = shown /\ excused' = excused
          \/ shown' = call[c].answer /\ excused' = (excused \/ call[c].crossed)
      BY <1>7 DEF ActAnswered
    <2>4. shown' \in Account \cup {None}
      BY <1>1, <2>2, <2>3
    <2>5. excused' \in BOOLEAN
      BY <1>1, <2>3
    <2>. QED
      BY <1>1, <2>1, <2>4, <2>5 DEF session
  <1>8. ASSUME NEW c \in Call, ActFails(c)
        PROVE  Goal
    <2>1. UNCHANGED <<at, session, stored, shown>> /\ excused' \in BOOLEAN
      BY <1>8 DEF ActFails
    <2>. QED
      BY <1>1, <2>1 DEF session
  <1>9. ASSUME NEW c \in Call, \/ Lost(c) \/ ConfigAnswered(c) \/ SpinAnswered(c)
                               \/ NetworksAnswered(c) \/ DetectAnswered(c) \/ BundlesAnswered(c)
                               \/ InitiateAnswered(c) \/ PollAnswered(c)
        PROVE  Goal
    <2>1. UNCHANGED <<session, data>> /\ at' \in {at, "home"}
      BY <1>9 DEF Lost, ConfigAnswered, SpinAnswered, NetworksAnswered, DetectAnswered, BundlesAnswered,
                  InitiateAnswered, PollAnswered
    <2>. QED
      BY <1>1, <1>3, <2>1
  <1>10. ASSUME Open \/ Leave \/ BrowserReload
         PROVE  Goal
    <2>1. /\ UNCHANGED <<owner, dead, held, stored>> /\ at' \in {at, "page", "home"}
          /\ token' \in {token, Restored} /\ shown' \in {shown, None} /\ excused' \in {excused, TRUE, FALSE}
      BY <1>10 DEF Open, Leave, BrowserReload, session, data
    <2>. QED
      BY <1>1, <2>1 DEF Restored
  <1>11. ASSUME NEW u \in User, Login(u)
         PROVE  Goal
    <2>1. /\ UNCHANGED <<at, dead, data>> /\ owner' = Append(owner, u)
          /\ held' = Len(owner') /\ token' = held'
      BY <1>11 DEF Login
    <2>2. owner' \in Seq(User) /\ Len(owner') = Len(owner) + 1 /\ DOMAIN owner \subseteq DOMAIN owner'
      BY <1>1, <2>1
    <2>. QED
      BY <1>1, <2>1, <2>2 DEF data
  <1>12. ASSUME NEW m \in DOMAIN owner, Expires(m)
         PROVE  Goal
    BY <1>1, <1>12 DEF Expires, data
  <1>13. ASSUME NEW cleared \in BOOLEAN, SignOut(cleared)
         PROVE  Goal
    <2>1. /\ UNCHANGED <<owner, dead, stored>> /\ held' \in {held, 0} /\ token' \in {token, 0}
          /\ at' \in {at, "home"}
      BY <1>13 DEF SignOut, SignedOut
    <2>2. shown' \in {shown, None} /\ excused' \in {excused, TRUE, FALSE}
      BY <1>13 DEF SignOut, SignedOut
    <2>3. held' \in 0..Len(owner') /\ token' \in 0..Len(owner')
      BY <1>1, <2>1
    <2>4. shown' \in Account \cup {None}
      BY <1>1, <2>2
    <2>5. excused' \in BOOLEAN
      BY <1>1, <2>2
    <2>6. /\ at' \in {"home", "page"} /\ owner' \in Seq(User) /\ dead' \subseteq DOMAIN owner'
          /\ stored' \in [User -> Value]
      BY <1>1, <2>1
    <2>. QED
      BY <2>3, <2>4, <2>5, <2>6
  <1>14. ASSUME NEW v \in Value, NEW how \in {"reread", "before", "after"}, Act(v, how)
         PROVE  Goal
    <2>1. /\ UNCHANGED <<at, session, stored, excused>> /\ shown # None
          /\ shown' = IF how = "before" THEN [shown EXCEPT !.value = v] ELSE shown
      BY <1>14 DEF Act
    <2>2. shown' \in Account
      BY <1>1, <2>1 DEF Account
    <2>. QED
      BY <1>1, <2>1, <2>2 DEF session
  <1>15. ASSUME NEW u \in User, NEW v \in Value, OthersWrite(u, v)
         PROVE  Goal
    BY <1>1, <1>15 DEF OthersWrite, session
  <1>16. ASSUME Refetch \/ TheWheel \/ UNCHANGED vars
         PROVE  Goal
    <2>1. UNCHANGED <<session, data>> /\ at' = at
      BY <1>16 DEF Refetch, TheWheel, Spin, Stops, Reset, Publish, vars
    <2>. QED
      BY <1>1, <1>3, <2>1
  <1>17. ASSUME Recharge
         PROVE  Goal
    <2>1. CASE PaymentReturned
      <3>1. UNCHANGED <<owner, dead, held, data>> /\ at' = "page" /\ token' = Restored
        BY <2>1 DEF PaymentReturned
      <3>. QED
        BY <1>1, <3>1 DEF Restored, data
    <2>2. CASE ~PaymentReturned
      <3>1. UNCHANGED <<session, data>> /\ at' = at
        BY <1>17, <2>2 DEF Recharge, Type, ChooseNetwork, ChooseType, Detect, ChooseBundle, Submit,
                           RechargeSettles, Poll
      <3>. QED
        BY <1>1, <1>3, <3>1
    <2>. QED
      BY <2>1, <2>2
  <1>. QED
    <2>. HIDE DEF Goal
    <2>1. Goal
      BY <1>4, <1>5, <1>6, <1>7, <1>8, <1>9, <1>10, <1>11, <1>12, <1>13, <1>14, <1>15, <1>16, <1>17
         DEF Next, Requests, Session, Data
    <2>. QED
      BY <2>1 DEF Goal

\* Types of the wheel, the form and the receipt.
LEMMA PageTypes ==
  ASSUME TypeOK, [Next]_vars
  PROVE  wheel' \in WheelType /\ form' \in FormType /\ receipt' \in ReceiptType
  <1>. DEFINE Goal == wheel' \in WheelType /\ form' \in FormType /\ receipt' \in ReceiptType
  <1>1. /\ page \in Pages /\ wheel \in WheelType /\ form \in FormType /\ receipt \in ReceiptType
        /\ Len(owner) \in Nat
    BY DEF TypeOK
  <1>2. ASSUME NEW c \in Call, call[c] # None
        PROVE  /\ call[c].op \in OpsOf(page.kind)
               /\ call[c].answer \in AnswerOf(call[c].op) /\ call[c].arg \in ArgOf(call[c].op)
    BY <1>1, <1>2, RequestFacts DEF TypeOK, IsCalls
  <1>3. ASSUME UNCHANGED <<wheel, order>>
        PROVE  Goal
    BY <1>1, <1>3 DEF order
  <1>4. ASSUME Emptied PROVE Goal
    BY <1>4, EmptiedTypes
  <1>5. ASSUME NEW c \in Call, ConfigAnswered(c)
        PROVE  Goal
    <2>1. call[c].answer \in Published \cup {None}
      BY <1>2, <1>5 DEF ConfigAnswered, Back, AnswerOf
    <2>2. wheel' \in WheelType
      BY <1>1, <1>5, <2>1 DEF ConfigAnswered, WheelType
    <2>. QED
      BY <1>1, <1>5, <2>2 DEF ConfigAnswered, order
  <1>6. ASSUME NEW c \in Call, SpinAnswered(c)
        PROVE  Goal
    <2>1. UNCHANGED order /\ call[c] # None /\ call[c].op = "play"
      BY <1>6 DEF SpinAnswered, Back
    <2>2. page.kind = "wheel" /\ call[c].answer \in {None} \cup Spun
      BY <1>1, <1>2, <2>1, OpFacts DEF AnswerOf
    <2>3. CASE Refused(c)
      <3>1. wheel' = [wheel EXCEPT !.phase = "idle"]
        BY <1>6, <2>3 DEF SpinAnswered
      <3>2. wheel' \in WheelType
        BY <1>1, <3>1 DEF WheelType
      <3>. QED
        BY <1>1, <2>1, <3>2 DEF order
    <2>4. CASE ~Refused(c)
      <3>. DEFINE w == call[c].answer.slots
                  i == First(w, call[c].answer.won)
      <3>1. call[c].answer \in Spun
        BY <2>2, <2>4 DEF Refused
      <3>2. w \in Published /\ call[c].answer.won \in Prize /\ \E k \in DOMAIN w : w[k].prize = call[c].answer.won
        BY <3>1 DEF Spun
      <3>3. PICK spare \in Spare, nudge \in Nudge(w, i) :
               wheel' = [wheel EXCEPT !.slots = w, !.phase = "turning", !.won = call[c].answer.won,
                            !.rotation = (Turn + spare + Landing(w, i) + nudge) % Turn]
        BY <1>6, <2>4 DEF SpinAnswered
      <3>4. i \in 1..Len(w)
        BY <3>2, PublishedWheels, FirstFound
      <3>5. spare \in Int
        <4>1. wheel.rotation \in Int /\ Turn \in Nat
          BY <1>1, WebAssumption DEF WheelType
        <4>2. ASSUME NEW extra \in 0..(Turn - 1) PROVE (wheel.rotation + extra) % Turn \in Int
          <5>1. wheel.rotation + extra \in Int
            BY <4>1
          <5>. QED
            BY <5>1, <4>1, WithinTurn
        <4>. QED
          BY <4>2 DEF Spare
      <3>6. (Turn + spare + Landing(w, i) + nudge) % Turn \in 0..(Turn - 1)
        BY <1>1, <2>2, <3>2, <3>4, <3>5, RotationType
      <3>7. wheel' \in WheelType
        <4>. HIDE DEF w, i
        <4>. QED
          BY <1>1, <3>2, <3>3, <3>6 DEF WheelType
      <3>. QED
        BY <1>1, <2>1, <3>7 DEF order
    <2>. QED
      BY <2>3, <2>4
  <1>7. ASSUME Spin \/ Stops \/ Reset \/ \E i \in DOMAIN Wheels : Publish(Wheels[i])
        PROVE  Goal
    <2>1. UNCHANGED order
      BY <1>7 DEF Spin, Stops, Reset, Publish
    <2>2. \A i \in DOMAIN Wheels : Wheels[i] \in Published
      BY DEF Published
    <2>3. wheel' \in WheelType
      BY <1>1, <1>7, <2>2 DEF Spin, Stops, Reset, Publish, WheelType
    <2>. QED
      BY <1>1, <2>1, <2>3 DEF order
  <1>8. ASSUME NEW c \in Call, NetworksAnswered(c) \/ DetectAnswered(c)
        PROVE  Goal
    <2>1. UNCHANGED <<wheel, receipt>>
      BY <1>8 DEF NetworksAnswered, DetectAnswered
    <2>2. \/ form' = form
          \/ \E m \in Network : Changed([form EXCEPT !.network = m], [call EXCEPT ![c] = None])
      <3>1. CASE NetworksAnswered(c)
        BY <1>2, <3>1 DEF NetworksAnswered, Back, AnswerOf
      <3>2. CASE DetectAnswered(c)
        BY <1>2, <3>2 DEF DetectAnswered, Back, AnswerOf
      <3>. QED
        BY <1>8, <3>1, <3>2
    <2>3. \A m \in Network : [form EXCEPT !.network = m] \in FormType
      BY <1>1 DEF FormType, Bundle
    <2>4. form' \in FormType
      BY <1>1, <2>2, <2>3, ChangedForm
    <2>. QED
      BY <1>1, <2>1, <2>4
  <1>9. ASSUME NEW c \in Call, BundlesAnswered(c)
        PROVE  Goal
    <2>1. call[c].answer \in Network \cup {None} /\ UNCHANGED <<wheel, receipt>>
      BY <1>2, <1>9 DEF BundlesAnswered, Back, AnswerOf
    <2>2. form' \in FormType
      BY <1>1, <1>9, <2>1 DEF BundlesAnswered, FormType, Bundle
    <2>. QED
      BY <1>1, <2>1, <2>2
  <1>10. ASSUME NEW c \in Call, InitiateAnswered(c)
         PROVE  Goal
    <2>1. EmptyForm \in FormType /\ NoReceipt("PENDING") \in ReceiptType
      BY DEF EmptyForm, NoReceipt, FormType, ReceiptType, Bundle
    <2>2. \/ UNCHANGED order
          \/ form' = EmptyForm /\ receipt' = NoReceipt("PENDING")
      <3>1. CASE call[c].answer = None
        BY <1>10, <3>1 DEF InitiateAnswered
      <3>2. CASE call[c].answer # None
        BY <1>10, <3>2 DEF InitiateAnswered
      <3>. QED
        BY <3>1, <3>2
    <2>3. UNCHANGED wheel
      BY <1>10 DEF InitiateAnswered
    <2>. QED
      BY <1>1, <2>1, <2>2, <2>3 DEF order
  <1>11. ASSUME NEW c \in Call, PollAnswered(c)
         PROVE  Goal
    <2>1. receipt' \in ReceiptType
      BY <1>1, <1>11 DEF PollAnswered, ReceiptType
    <2>. QED
      BY <1>1, <1>11, <2>1 DEF PollAnswered
  <1>12. ASSUME Recharge
         PROVE  Goal
    <2>1. ASSUME NEW digits \in {"few", "most", "all"}, Type(digits)
          PROVE  Goal
      <3>1. \E f \in FormType : Changed(f, call)
        <4>1. CASE digits = "all"
          <5>1. Changed([form EXCEPT !.number = TRUE, !.waiting = {form.network}], call)
            BY <2>1, <4>1 DEF Type
          <5>. QED
            BY <1>1, <5>1 DEF FormType
        <4>2. CASE digits = "most"
          <5>1. Changed([form EXCEPT !.number = FALSE], call)
            BY <2>1, <4>2 DEF Type
          <5>. QED
            BY <1>1, <5>1 DEF FormType
        <4>3. CASE digits = "few"
          <5>1. Changed([form EXCEPT !.number = FALSE, !.network = None], call)
            BY <2>1, <4>3 DEF Type
          <5>. QED
            BY <1>1, <5>1 DEF FormType, Bundle
        <4>. QED
          BY <4>1, <4>2, <4>3
      <3>2. form' \in FormType
        BY <3>1, ChangedForm
      <3>. QED
        BY <1>1, <2>1, <3>2 DEF Type
    <2>2. ASSUME NEW m \in Network, ChooseNetwork(m)
          PROVE  Goal
      <3>1. [form EXCEPT !.network = m, !.bundle = None] \in FormType
        BY <1>1 DEF FormType, Bundle
      <3>2. form' \in FormType
        BY <2>2, <3>1, ChangedForm DEF ChooseNetwork
      <3>. QED
        BY <1>1, <2>2, <3>2 DEF ChooseNetwork
    <2>3. ASSUME NEW kind \in {"airtime", "data"}, ChooseType(kind)
          PROVE  Goal
      <3>1. [form EXCEPT !.kind = kind, !.bundle = None] \in FormType
        BY <1>1 DEF FormType, Bundle
      <3>2. form' \in FormType
        BY <2>3, <3>1, ChangedForm DEF ChooseType
      <3>. QED
        BY <1>1, <2>3, <3>2 DEF ChooseType
    <2>4. ASSUME Detect \/ ChooseBundle
          PROVE  Goal
      <3>1. UNCHANGED <<wheel, receipt>> /\ form' \in FormType
        BY <1>1, <2>4 DEF Detect, ChooseBundle, FormType
      <3>. QED
        BY <1>1, <3>1
    <2>5. ASSUME NEW status \in Settled, RechargeSettles(status)
          PROVE  Goal
      <3>1. UNCHANGED <<wheel, form>> /\ receipt' \in ReceiptType
        BY <1>1, <2>5 DEF RechargeSettles, ReceiptType
      <3>. QED
        BY <1>1, <3>1
    <2>6. ASSUME PaymentReturned
          PROVE  Goal
      <3>1. UNCHANGED <<wheel, form>>
        BY <2>6 DEF PaymentReturned
      <3>2. NoReceipt(receipt.recharge) \in ReceiptType
        BY <1>1 DEF NoReceipt, ReceiptType
      <3>3. receipt' \in ReceiptType
        BY <2>6, <3>2 DEF PaymentReturned, ReceiptType
      <3>. QED
        BY <1>1, <3>1, <3>3
    <2>7. ASSUME Poll
          PROVE  Goal
      <3>1. UNCHANGED <<wheel, form>> /\ receipt' = [receipt EXCEPT !.timer = FALSE, !.tries = @ + 1]
        BY <2>7 DEF Poll
      <3>2. receipt.tries + 1 \in Nat
        BY <1>1 DEF ReceiptType
      <3>3. receipt' \in ReceiptType
        BY <1>1, <3>1, <3>2 DEF ReceiptType
      <3>. QED
        BY <1>1, <3>1, <3>3
    <2>8. ASSUME Submit
          PROVE  Goal
      BY <1>3, <2>8 DEF Submit
    <2>. QED
      <3>. HIDE DEF Goal
      <3>. QED
        BY <1>12, <2>1, <2>2, <2>3, <2>4, <2>5, <2>6, <2>7, <2>8 DEF Recharge
  <1>13. ASSUME NEW c \in Call, \/ Serve(c) \/ Lost(c) \/ LoadAnswered(c) \/ ActAnswered(c) \/ ActFails(c)
                                \/ Unauthorized(c)
         PROVE  Goal
    <2>1. UNCHANGED <<wheel, order>> \/ Emptied
      BY <1>13 DEF Serve, Lost, LoadAnswered, ActAnswered, ActFails, Unauthorized, SignedOut, order
    <2>. QED
      BY <1>3, <1>4, <2>1
  <1>14. ASSUME Session \/ Data \/ UNCHANGED vars
         PROVE  Goal
    <2>1. UNCHANGED <<wheel, order>> \/ Emptied
      BY <1>14 DEF Session, Data, Open, Leave, BrowserReload, Login, Expires, SignOut, SignedOut, Refetch, Act,
                   OthersWrite, vars, order
    <2>. QED
      BY <1>3, <1>4, <2>1
  <1>. QED
    <2>. HIDE DEF Goal
    <2>1. Goal
      BY <1>5, <1>6, <1>7, <1>8, <1>9, <1>10, <1>11, <1>12, <1>13, <1>14 DEF Next, Requests, TheWheel
    <2>. QED
      BY <2>1 DEF Goal

LEMMA TypeStep ==
  ASSUME TypeOK, [Next]_vars
  PROVE  TypeOK'
  BY CallsStep, SessionTypes, PageTypes DEF TypeOK, IsCalls, IsRequest

LEMMA TypeInit ==
  ASSUME Init
  PROVE  TypeOK
  <1>1. page \in Pages /\ IsCalls(call, 0)
    BY CallsMarked DEF Init, IsCalls, NoCalls
  <1>2. owner \in Seq(User) /\ Len(owner) = 0 /\ DOMAIN owner = {}
    BY DEF Init
  <1>3. form \in FormType /\ receipt \in ReceiptType
    BY DEF Init, EmptyForm, NoReceipt, FormType, ReceiptType, Bundle
  <1>4. wheel \in WheelType
    <2>1. 1 \in DOMAIN Wheels /\ Turn \in Nat \ {0}
      BY WebAssumption
    <2>2. PICK i \in DOMAIN Wheels : wheel = EmptyWheel(Wheels[i])
      BY <2>1 DEF Init
    <2>. QED
      BY <2>1, <2>2 DEF EmptyWheel, WheelType, Published
  <1>5. stored \in [User -> Value] /\ shown \in Account \cup {None} /\ excused \in BOOLEAN
    BY DEF Init
  <1>6. at \in {"home", "page"} /\ dead \subseteq DOMAIN owner /\ held \in 0..Len(owner) /\ token \in 0..Len(owner)
    BY <1>2 DEF Init
  <1>7. IsCalls(call, Len(owner))
    BY <1>1, <1>2
  <1>. QED
    BY <1>1, <1>2, <1>3, <1>4, <1>5, <1>6, <1>7 DEF TypeOK

\* On each of its pages the client keeps to the types of its session, of the data it shows, of the
\* wheel, the form and the receipt, and each request to the question and the answers of its kind.
THEOREM TypeCorrect == Spec => []TypeOK
  BY TypeInit, TypeStep, PTL DEF Spec

------------------------------------------------------------------------------
(* How requests change.                                                    *)

\* The same question, asked with the same token.
Same(q, r) == q.op = r.op /\ q.arg = r.arg /\ q.how = r.how /\ q.tok = r.tok

LEMMA RequestIsNotNone ==
  ASSUME page \in Pages, NEW q, NEW n \in Nat, IsRequest(q, n)
  PROVE  q # None
  BY OpFacts, NoneAssumption DEF IsRequest

\* Marks on requests: nothing but the mark changes.
LEMMA CrossFields ==
  ASSUME page \in Pages, NEW calls, NEW n \in Nat, IsCalls(calls, n), NEW c \in Call
  PROVE  /\ Cross(calls)[c] = None <=> calls[c] = None
         /\ calls[c] # None =>
               /\ Same(Cross(calls)[c], calls[c])
               /\ Cross(calls)[c].state = calls[c].state /\ Cross(calls)[c].answer = calls[c].answer
               /\ Cross(calls)[c].late = calls[c].late
               /\ Cross(calls)[c].crossed <=> (calls[c].crossed \/ calls[c].state = "back")
  <1>1. CASE calls[c] # None /\ calls[c].state = "back"
    <2>1. Cross(calls)[c] = [calls[c] EXCEPT !.crossed = TRUE]
      BY <1>1 DEF Cross
    <2>2. IsRequest(calls[c], n)
      BY <1>1 DEF IsCalls
    <2>3. IsRequest([calls[c] EXCEPT !.crossed = TRUE], n)
      BY <2>2, RequestMarked
    <2>4. Cross(calls)[c] # None
      BY <2>1, <2>3, RequestIsNotNone
    <2>5. /\ Same(Cross(calls)[c], calls[c])
          /\ Cross(calls)[c].state = calls[c].state /\ Cross(calls)[c].answer = calls[c].answer
          /\ Cross(calls)[c].late = calls[c].late /\ Cross(calls)[c].crossed = TRUE
      BY <2>1, <2>2 DEF Same, IsRequest, RequestOf
    <2>. QED
      BY <1>1, <2>4, <2>5
  <1>2. CASE ~(calls[c] # None /\ calls[c].state = "back")
    <2>1. Cross(calls)[c] = calls[c]
      BY <1>2 DEF Cross
    <2>. QED
      BY <1>2, <2>1 DEF Same
  <1>. QED
    BY <1>1, <1>2

LEMMA CrossAllFields ==
  ASSUME page \in Pages, NEW calls, NEW n \in Nat, IsCalls(calls, n), NEW c \in Call
  PROVE  /\ CrossAll(calls)[c] = None <=> calls[c] = None
         /\ calls[c] # None =>
               /\ Same(CrossAll(calls)[c], calls[c])
               /\ CrossAll(calls)[c].state = calls[c].state /\ CrossAll(calls)[c].answer = calls[c].answer
               /\ CrossAll(calls)[c].late = calls[c].late /\ (CrossAll(calls)[c].crossed <=> IsData)
  <1>1. CASE calls[c] # None
    <2>1. CrossAll(calls)[c] = [calls[c] EXCEPT !.crossed = IsData] /\ IsData \in BOOLEAN
      BY <1>1 DEF CrossAll, IsData
    <2>2. IsRequest(calls[c], n)
      BY <1>1 DEF IsCalls
    <2>3. IsRequest([calls[c] EXCEPT !.crossed = IsData], n)
      BY <2>1, <2>2, RequestMarked
    <2>4. CrossAll(calls)[c] # None
      BY <2>1, <2>3, RequestIsNotNone
    <2>5. /\ Same(CrossAll(calls)[c], calls[c])
          /\ CrossAll(calls)[c].state = calls[c].state /\ CrossAll(calls)[c].answer = calls[c].answer
          /\ CrossAll(calls)[c].late = calls[c].late /\ CrossAll(calls)[c].crossed = IsData
      BY <2>1, <2>2 DEF Same, IsRequest, RequestOf
    <2>. QED
      BY <1>1, <2>4, <2>5
  <1>2. CASE calls[c] = None
    BY <1>2 DEF CrossAll
  <1>. QED
    BY <1>1, <1>2

LEMMA SupersededFields ==
  ASSUME page \in Pages, NEW n \in Nat, IsCalls(call, n), NEW c \in Call
  PROVE  /\ call[c] = None => Superseded[c] = None
         /\ ~page.cache => Superseded[c] = call[c]
         /\ call[c] # None /\ call[c].op # "load" => Superseded[c] = call[c]
         /\ Superseded[c] # None =>
               /\ Same(Superseded[c], call[c])
               /\ Superseded[c].state = call[c].state /\ Superseded[c].answer = call[c].answer
               /\ Superseded[c].crossed = call[c].crossed
  <1>1. CASE call[c] # None /\ call[c].op = "load" /\ page.cache
    <2>1. Superseded[c] = IF call[c].state = "back" THEN None ELSE [call[c] EXCEPT !.late = TRUE]
      BY <1>1 DEF Superseded
    <2>2. IsRequest(call[c], n)
      BY <1>1 DEF IsCalls
    <2>3. Superseded[c] # None =>
            /\ Same(Superseded[c], call[c])
            /\ Superseded[c].state = call[c].state /\ Superseded[c].answer = call[c].answer
            /\ Superseded[c].crossed = call[c].crossed
      BY <2>1, <2>2 DEF Same, IsRequest, RequestOf
    <2>. QED
      BY <1>1, <2>3
  <1>2. CASE ~(call[c] # None /\ call[c].op = "load" /\ page.cache)
    <2>1. Superseded[c] = call[c]
      BY <1>2 DEF Superseded
    <2>. QED
      BY <1>2, <2>1 DEF Same
  <1>. QED
    BY <1>1, <1>2

\* Which steps a page can take: those of its kind, and those of any page.
AnyStep == \/ \E c \in Call : Serve(c) \/ Lost(c) \/ Unauthorized(c)
           \/ Session \/ TheWheel \/ (\E status \in Settled : RechargeSettles(status)) \/ UNCHANGED vars

DataStep == \/ \E c \in Call : LoadAnswered(c) \/ ActAnswered(c) \/ ActFails(c)
            \/ Data

WheelStep == \E c \in Call : ConfigAnswered(c) \/ SpinAnswered(c)

RechargeStep ==
    \/ \E c \in Call : \/ NetworksAnswered(c) \/ DetectAnswered(c) \/ BundlesAnswered(c)
                       \/ InitiateAnswered(c) \/ PollAnswered(c)
    \/ \E digits \in {"few", "most", "all"} : Type(digits)
    \/ \E n \in Network : ChooseNetwork(n)
    \/ \E kind \in {"airtime", "data"} : ChooseType(kind)
    \/ Detect \/ ChooseBundle \/ Submit \/ PaymentReturned \/ Poll

LEMMA StepsOfPage ==
  ASSUME TypeOK, [Next]_vars
  PROVE  \/ AnyStep
         \/ IsData /\ DataStep
         \/ page.kind = "wheel" /\ WheelStep
         \/ page.kind = "recharge" /\ RechargeStep
  <1>1. page \in Pages /\ Len(owner) \in Nat
    BY DEF TypeOK
  <1>2. ASSUME NEW c \in Call, call[c] # None PROVE call[c].op \in OpsOf(page.kind)
    BY <1>1, <1>2, RequestFacts DEF TypeOK, IsCalls
  <1>3. ASSUME NEW c \in Call, LoadAnswered(c) \/ ActAnswered(c) \/ ActFails(c)
        PROVE  IsData
    BY <1>1, <1>2, <1>3, OpFacts DEF LoadAnswered, ActAnswered, ActFails, Back
  <1>4. ASSUME Data PROVE IsData
    BY <1>4 DEF Data, Refetch, Act, OthersWrite
  <1>5. ASSUME NEW c \in Call, ConfigAnswered(c) \/ SpinAnswered(c)
        PROVE  page.kind = "wheel"
    BY <1>1, <1>2, <1>5, OpFacts DEF ConfigAnswered, SpinAnswered, Back
  <1>6. ASSUME RechargeStep PROVE page.kind = "recharge"
    BY <1>6 DEF RechargeStep, NetworksAnswered, DetectAnswered, BundlesAnswered, InitiateAnswered, PollAnswered,
                Type, ChooseNetwork, ChooseType, Detect, ChooseBundle, Submit, PaymentReturned, Poll,
                Filling, OnForm
  <1>7. ASSUME Requests
        PROVE  \/ \E c \in Call : Serve(c) \/ Lost(c) \/ Unauthorized(c)
               \/ \E c \in Call : LoadAnswered(c) \/ ActAnswered(c) \/ ActFails(c)
               \/ WheelStep
               \/ RechargeStep
    BY <1>7 DEF Requests, WheelStep, RechargeStep
  <1>8. ASSUME Recharge
        PROVE  RechargeStep \/ \E status \in Settled : RechargeSettles(status)
    BY <1>8 DEF Recharge, RechargeStep
  <1>. QED
    BY <1>3, <1>4, <1>5, <1>6, <1>7, <1>8 DEF Next, AnyStep, DataStep, WheelStep

\* The server refuses a request, drops one that no longer counts, or answers it; if that wrote
\* anything, the answers under way are older.
LEMMA ServeFields ==
  ASSUME TypeOK, NEW c \in Call, Serve(c)
  PROVE  /\ call[c] # None /\ call[c].state = "out"
         /\ \/ /\ call[c].op \in Guarded /\ stored' = stored
               /\ call'[c] # None /\ Same(call'[c], call[c])
               /\ call'[c].state = "denied" /\ call'[c].answer = None
               /\ call'[c].late = call[c].late /\ call'[c].crossed = call[c].crossed
               /\ \A d \in Call \ {c} : call'[d] = call[d]
            \/ /\ call[c].late /\ stored' = stored
               /\ call'[c] = None /\ \A d \in Call \ {c} : call'[d] = call[d]
            \/ /\ ~call[c].late /\ ~(call[c].op \in Guarded /\ call[c].tok \in dead \cup {0})
               /\ call'[c] # None /\ Same(call'[c], call[c])
               /\ call'[c].state = "back" /\ call'[c].answer \in Answers(call[c])
               /\ call'[c].late = call[c].late /\ call'[c].crossed = call[c].crossed
               /\ IF call[c].op = "act" /\ call'[c].answer # None
                  THEN /\ stored' = [stored EXCEPT ![call'[c].answer.user] = call'[c].answer.value]
                       /\ \A d \in Call \ {c} : call'[d] = Cross(call)[d]
                  ELSE stored' = stored /\ \A d \in Call \ {c} : call'[d] = call[d]
  <1>. DEFINE q == call[c]
              refused == q.op \in Guarded /\ q.tok \in dead \cup {0}
  <1>1. /\ page \in Pages /\ Len(owner) \in Nat /\ IsCalls(call, Len(owner)) /\ DOMAIN call = Call
        /\ q # None /\ q.state = "out"
    BY DEF TypeOK, IsCalls, Serve
  <1>2. /\ IsRequest(q, Len(owner)) /\ q \in RequestOf(q.op) /\ q.answer = None
    BY <1>1, RequestFacts DEF IsCalls
  <1>3. CASE refused
    <2>1. call' = [call EXCEPT ![c].state = "denied"] /\ stored' = stored
      BY <1>3 DEF Serve
    <2>2. call'[c] = [q EXCEPT !.state = "denied"] /\ \A d \in Call \ {c} : call'[d] = call[d]
      BY <1>1, <2>1
    <2>3. IsRequest([q EXCEPT !.state = "denied"], Len(owner))
      BY <1>1, <1>2, <1>3, RequestMarked
    <2>4. call'[c] # None
      BY <1>1, <2>2, <2>3, RequestIsNotNone
    <2>5. /\ Same(call'[c], q) /\ call'[c].state = "denied" /\ call'[c].answer = q.answer
          /\ call'[c].late = q.late /\ call'[c].crossed = q.crossed
      BY <1>2, <2>2 DEF Same, RequestOf
    <2>. QED
      BY <1>1, <1>2, <1>3, <2>1, <2>2, <2>4, <2>5
  <1>4. CASE ~refused /\ q.late
    <2>1. call' = [call EXCEPT ![c] = None] /\ stored' = stored
      BY <1>4 DEF Serve, Ends
    <2>. QED
      BY <1>1, <1>4, <2>1
  <1>5. CASE ~refused /\ ~q.late
    <2>1. PICK a \in Answers(q) :
             IF q.op = "act" /\ a # None
             THEN /\ stored' = [stored EXCEPT ![a.user] = a.value]
                  /\ call' = [Cross(call) EXCEPT ![c].state = "back", ![c].answer = a]
             ELSE /\ call' = [call EXCEPT ![c].state = "back", ![c].answer = a]
                  /\ stored' = stored
      BY <1>5 DEF Serve
    <2>2. a \in AnswerOf(q.op)
      BY <1>2, <1>5, AnswerType
    <2>3. Cross(call)[c] = call[c] /\ DOMAIN Cross(call) = Call
      BY <1>1 DEF Cross
    <2>4. call'[c] = [q EXCEPT !.state = "back", !.answer = a]
      <3>1. CASE q.op = "act" /\ a # None
        BY <2>1, <2>3, <3>1
      <3>2. CASE ~(q.op = "act" /\ a # None)
        BY <1>1, <2>1, <3>2
      <3>. QED
        BY <3>1, <3>2
    <2>5. IF q.op = "act" /\ a # None
          THEN /\ stored' = [stored EXCEPT ![a.user] = a.value]
               /\ \A d \in Call \ {c} : call'[d] = Cross(call)[d]
          ELSE stored' = stored /\ \A d \in Call \ {c} : call'[d] = call[d]
      <3>1. CASE q.op = "act" /\ a # None
        BY <2>1, <2>3, <3>1
      <3>2. CASE ~(q.op = "act" /\ a # None)
        BY <1>1, <2>1, <3>2
      <3>. QED
        BY <3>1, <3>2
    <2>6. IsRequest([q EXCEPT !.state = "back", !.answer = a], Len(owner))
      BY <1>1, <1>2, <2>2, RequestMarked
    <2>7. call'[c] # None
      BY <1>1, <2>4, <2>6, RequestIsNotNone
    <2>8. /\ Same(call'[c], q) /\ call'[c].state = "back" /\ call'[c].answer = a
          /\ call'[c].late = q.late /\ call'[c].crossed = q.crossed
      BY <1>2, <2>4 DEF Same, RequestOf
    <2>. QED
      BY <1>1, <1>5, <2>5, <2>7, <2>8
  <1>. QED
    BY <1>3, <1>4, <1>5

LEMMA LostFields ==
  ASSUME TypeOK, NEW c \in Call, Lost(c)
  PROVE  /\ call[c] # None /\ \A d \in Call \ {c} : call'[d] = call[d]
         /\ IF call[c].late THEN call'[c] = None
            ELSE /\ call'[c] # None /\ Same(call'[c], call[c]) /\ call'[c].state = "back"
                 /\ call'[c].answer = None /\ call'[c].late = call[c].late /\ (call'[c].crossed <=> IsData)
  <1>. DEFINE q == call[c]
  <1>1. /\ page \in Pages /\ Len(owner) \in Nat /\ DOMAIN call = Call /\ q # None /\ IsData \in BOOLEAN
        /\ IsRequest(q, Len(owner)) /\ q \in RequestOf(q.op)
    BY RequestFacts DEF TypeOK, IsCalls, Lost, IsData
  <1>2. CASE q.late
    BY <1>1, <1>2 DEF Lost
  <1>3. CASE ~q.late
    <2>1. call' = [call EXCEPT ![c] = [@ EXCEPT !.state = "back", !.answer = None, !.crossed = IsData]]
      BY <1>3 DEF Lost
    <2>2. call'[c] = [q EXCEPT !.state = "back", !.answer = None, !.crossed = IsData]
          /\ \A d \in Call \ {c} : call'[d] = call[d]
      BY <1>1, <2>1
    <2>3. IsRequest([q EXCEPT !.state = "back", !.answer = None, !.crossed = IsData], Len(owner))
      BY <1>1, RequestMarked
    <2>4. call'[c] # None
      BY <1>1, <2>2, <2>3, RequestIsNotNone
    <2>5. /\ Same(call'[c], q) /\ call'[c].state = "back" /\ call'[c].answer = None
          /\ call'[c].late = q.late /\ call'[c].crossed = IsData
      BY <1>1, <2>2 DEF Same, RequestOf
    <2>. QED
      BY <1>1, <1>3, <2>2, <2>4, <2>5
  <1>. QED
    BY <1>2, <1>3

\* A page asks once as it opens, except the profile.
LEMMA MountedFields ==
  ASSUME TypeOK, NEW calls, NEW n \in Nat, IsCalls(calls, n), NEW tok \in 0..n, Mounted(calls, tok)
  PROVE  /\ InStore => call' = calls
         /\ ~InStore => \E d \in Free, op \in {"load", "config", "networks"}, t \in {0, tok} :
               /\ call'[d] = RequestWith(op, None, None, t) /\ call'[d] # None
               /\ \A e \in Call \ {d} : call'[e] = calls[e]
               /\ IsData => op = "load" /\ t = tok
               /\ op = "load" => IsData
               /\ op = "config" <=> page.kind = "wheel"
  <1>1. page \in Pages
    BY DEF TypeOK
  <1>2. CASE IsData /\ page.opens
    <2>1. With(RequestWith("load", None, None, tok), calls)
      BY <1>2 DEF Mounted, InStore, IsData
    <2>2. "load" \in OpsOf(page.kind) /\ None \in ArgOf("load")
      BY <1>2 DEF OpsOf, ArgOf, IsData
    <2>3. PICK d \in Free : /\ call'[d] = RequestWith("load", None, None, tok) /\ call'[d] # None
                            /\ \A e \in Call \ {d} : call'[e] = calls[e]
      BY <1>1, <2>1, <2>2, Sent
    <2>. QED
      BY <1>2, <2>3 DEF InStore, IsData
  <1>3. CASE InStore
    BY <1>3 DEF Mounted, InStore, IsData
  <1>4. CASE page.kind = "wheel"
    <2>1. With(RequestWith("config", None, None, tok), calls)
      BY <1>4 DEF Mounted, IsData, InStore
    <2>2. "config" \in OpsOf(page.kind) /\ None \in ArgOf("config")
      BY <1>4 DEF OpsOf, ArgOf
    <2>3. PICK d \in Free : /\ call'[d] = RequestWith("config", None, None, tok) /\ call'[d] # None
                            /\ \A e \in Call \ {d} : call'[e] = calls[e]
      BY <1>1, <2>1, <2>2, Sent
    <2>. QED
      BY <1>4, <2>3 DEF InStore, IsData
  <1>5. CASE page.kind = "recharge"
    <2>1. With(RequestWith("networks", None, None, 0), calls)
      BY <1>5 DEF Mounted, IsData, InStore, Request, Public
    <2>2. "networks" \in OpsOf(page.kind) /\ None \in ArgOf("networks")
      BY <1>5 DEF OpsOf, ArgOf
    <2>3. PICK d \in Free : /\ call'[d] = RequestWith("networks", None, None, 0) /\ call'[d] # None
                            /\ \A e \in Call \ {d} : call'[e] = calls[e]
      BY <1>1, <2>1, <2>2, Sent
    <2>. QED
      BY <1>5, <2>3 DEF InStore, IsData
  <1>. QED
    BY <1>1, <1>2, <1>3, <1>4, <1>5, PageFacts DEF InStore, IsData

LEMMA LoginFields ==
  ASSUME TypeOK, NEW u \in User, Login(u)
  PROVE  /\ ~InStore => call' = CrossAll(call)
         /\ InStore => \E d \in Free : /\ call'[d] = RequestWith("load", None, None, token') /\ call'[d] # None
                                        /\ \A e \in Call \ {d} : call'[e] = CrossAll(call)[e]
         /\ Len(owner') = Len(owner) + 1 /\ token' = held' /\ held' = Len(owner')
         /\ \A i \in 1..Len(owner) : owner'[i] = owner[i]
  <1>1. /\ page \in Pages /\ owner \in Seq(User) /\ Len(owner) \in Nat /\ IsCalls(call, Len(owner))
        /\ token' = held' /\ held' = Len(owner') /\ owner' = Append(owner, u)
    BY DEF TypeOK, Login
  <1>2. Len(owner') = Len(owner) + 1 /\ \A i \in 1..Len(owner) : owner'[i] = owner[i]
    BY <1>1
  <1>3. IsCalls(CrossAll(call), Len(owner) + 1)
    BY <1>1, CallsMarked, MoreTokens
  <1>4. CASE InStore
    <2>1. With(RequestWith("load", None, None, token'), CrossAll(call))
      BY <1>4 DEF Login
    <2>2. "load" \in OpsOf(page.kind) /\ None \in ArgOf("load")
      BY <1>4 DEF OpsOf, ArgOf, IsData, InStore
    <2>3. Len(owner) + 1 \in Nat /\ token' \in 0..(Len(owner) + 1)
      BY <1>1, <1>2
    <2>4. \E d \in Free : /\ call'[d] = RequestWith("load", None, None, token') /\ call'[d] # None
                          /\ \A e \in Call \ {d} : call'[e] = CrossAll(call)[e]
      BY <1>1, <1>3, <2>1, <2>2, <2>3, Sent
    <2>. QED
      BY <1>1, <1>2, <1>4, <2>4
  <1>5. CASE ~InStore
    BY <1>1, <1>2, <1>5 DEF Login
  <1>. QED
    BY <1>4, <1>5

\* A step of any page keeps requests as they are asked, and adds those a page opens with.
LEMMA KeptRequests ==
  ASSUME TypeOK, AnyStep, ~Spin, NEW c \in Call, call'[c] # None
  PROVE  \/ call[c] # None /\ Same(call'[c], call[c])
         \/ call'[c].op \in {"load", "config", "networks"}
  <1>. DEFINE Goal == \/ call[c] # None /\ Same(call'[c], call[c])
                      \/ call'[c].op \in {"load", "config", "networks"}
  <1>1. /\ page \in Pages /\ IsCalls(call, Len(owner)) /\ Len(owner) \in Nat /\ token \in 0..Len(owner)
        /\ Restored \in 0..Len(owner) /\ owner \in Seq(User)
        /\ IsCalls(NoCalls, Len(owner)) /\ IsCalls(Superseded, Len(owner)) /\ NoCalls[c] = None
    BY CallsMarked, CallsSuperseded DEF TypeOK, Restored, NoCalls
  <1>2. ASSUME call'[c] = call[c] PROVE Goal
    BY <1>2 DEF Same
  <1>3. CrossAll(call)[c] # None => call[c] # None /\ Same(CrossAll(call)[c], call[c])
    BY <1>1, CrossAllFields
  <1>4. Cross(call)[c] # None => call[c] # None /\ Same(Cross(call)[c], call[c])
    BY <1>1, CrossFields
  <1>5. Superseded[c] # None => call[c] # None /\ Same(Superseded[c], call[c])
    BY <1>1, SupersededFields
  <1>6. ASSUME NEW d \in Call, Serve(d) PROVE Goal
    BY <1>2, <1>4, <1>6, ServeFields
  <1>7. ASSUME NEW d \in Call, Lost(d) PROVE Goal
    BY <1>2, <1>7, LostFields
  <1>8. ASSUME NEW d \in Call, Unauthorized(d) PROVE Goal
    <2>1. IsCalls([call EXCEPT ![d] = None], Len(owner)) /\ DOMAIN call = Call
      BY <1>1, CallsChanged DEF IsCalls
    <2>2. call' \in {CrossAll([call EXCEPT ![d] = None]), NoCalls, [call EXCEPT ![d] = None]}
      BY <1>8 DEF Unauthorized, SignedOut, Ends
    <2>3. [call EXCEPT ![d] = None][c] \in {None, call[c]}
      BY <2>1
    <2>4. CASE call' = CrossAll([call EXCEPT ![d] = None])
      <3>1. /\ [call EXCEPT ![d] = None][c] # None
            /\ Same(call'[c], [call EXCEPT ![d] = None][c])
        BY <1>1, <2>1, <2>4, CrossAllFields
      <3>. QED
        BY <2>3, <3>1
    <2>5. CASE call' = NoCalls
      BY <1>1, <2>5
    <2>6. CASE call' = [call EXCEPT ![d] = None]
      BY <1>2, <2>3, <2>6
    <2>. QED
      BY <2>2, <2>4, <2>5, <2>6
  <1>9. ASSUME NEW calls, IsCalls(calls, Len(owner)), NEW tok \in 0..Len(owner), Mounted(calls, tok),
               calls[c] # None => call[c] # None /\ Same(calls[c], call[c])
        PROVE  Goal
    <2>1. CASE InStore
      BY <1>1, <1>9, <2>1, MountedFields
    <2>2. CASE ~InStore
      <3>1. PICK d \in Free, op \in {"load", "config", "networks"}, t \in {0, tok} :
               /\ call'[d] = RequestWith(op, None, None, t)
               /\ \A e \in Call \ {d} : call'[e] = calls[e]
        BY <1>1, <1>9, <2>2, MountedFields
      <3>2. call'[d].op = op
        BY <3>1 DEF RequestWith
      <3>. QED
        BY <1>9, <3>1, <3>2
    <2>. QED
      BY <2>1, <2>2
  <1>10. ASSUME Open \/ Leave \/ BrowserReload
         PROVE  Goal
    <2>1. \/ Mounted(Superseded, token)
          \/ Mounted(NoCalls, Restored)
          \/ call' = call
          \/ call' = NoCalls
      BY <1>10 DEF Open, Leave, BrowserReload
    <2>2. CASE Mounted(Superseded, token)
      BY <1>1, <1>5, <1>9, <2>2
    <2>3. CASE Mounted(NoCalls, Restored)
      BY <1>1, <1>9, <2>3
    <2>. QED
      BY <1>1, <1>2, <2>1, <2>2, <2>3
  <1>11. ASSUME NEW u \in User, Login(u)
         PROVE  Goal
    <2>1. CASE ~InStore
      BY <1>3, <1>11, <2>1, LoginFields
    <2>2. CASE InStore
      <3>1. PICK d \in Free : /\ call'[d] = RequestWith("load", None, None, token')
                              /\ \A e \in Call \ {d} : call'[e] = CrossAll(call)[e]
        BY <1>11, <2>2, LoginFields
      <3>2. call'[d].op = "load"
        BY <3>1 DEF RequestWith
      <3>. QED
        BY <1>3, <3>1, <3>2
    <2>. QED
      BY <2>1, <2>2
  <1>12. ASSUME NEW cleared \in BOOLEAN, SignOut(cleared)
         PROVE  Goal
    <2>1. call' \in {CrossAll(call), NoCalls}
      BY <1>12 DEF SignOut, SignedOut
    <2>. QED
      BY <1>1, <1>3, <2>1
  <1>13. ASSUME call' = call PROVE Goal
    BY <1>2, <1>13
  <1>14. ASSUME \/ \E m \in DOMAIN owner : Expires(m)
                \/ Stops \/ Reset \/ (\E i \in DOMAIN Wheels : Publish(Wheels[i]))
                \/ (\E status \in Settled : RechargeSettles(status)) \/ UNCHANGED vars
         PROVE  Goal
    <2>1. call' = call
      BY <1>14 DEF Expires, Stops, Reset, Publish, RechargeSettles, vars
    <2>. QED
      BY <1>13, <2>1
  <1>. QED
    <2>. HIDE DEF Goal
    <2>1. Goal
      BY <1>6, <1>7, <1>8, <1>10, <1>11, <1>12, <1>14 DEF AnyStep, Session, TheWheel
    <2>. QED
      BY <2>1 DEF Goal

\* What a step of the recharge page does to its requests.
LEMMA KeptOnForm ==
  ASSUME TypeOK, page.kind = "recharge", RechargeStep, NEW c \in Call, call'[c] # None
  PROVE  \/ call[c] # None /\ Same(call'[c], call[c])
         \/ call'[c].op \in {"networks", "bundles", "detect", "status"}
         \/ /\ Submit
            /\ call'[c] = Request("initiate", [network |-> form.network, kind |-> form.kind,
                                             bundle |-> form.bundle, late |-> form.late], None)
  <1>. DEFINE Goal == \/ call[c] # None /\ Same(call'[c], call[c])
                      \/ call'[c].op \in {"networks", "bundles", "detect", "status"}
                      \/ /\ Submit
                         /\ call'[c] = Request("initiate", [network |-> form.network, kind |-> form.kind,
                                                          bundle |-> form.bundle, late |-> form.late], None)
  <1>1. /\ page \in Pages /\ IsCalls(call, Len(owner)) /\ Len(owner) \in Nat /\ DOMAIN call = Call
        /\ IsCalls(NoCalls, Len(owner)) /\ NoCalls[c] = None /\ Restored \in 0..Len(owner)
    BY CallsMarked DEF TypeOK, NoCalls, IsCalls, Restored
  <1>2. ASSUME call'[c] = call[c] PROVE Goal
    BY <1>2 DEF Same
  <1>3. ASSUME NEW calls, DOMAIN calls = Call, calls[c] \in {None, call[c]}, NEW q,
               \E d \in Free : call' = [calls EXCEPT ![d] = q]
        PROVE  Goal \/ call'[c] = q
    BY <1>2, <1>3 DEF Free
  <1>4. ASSUME NEW calls, DOMAIN calls = Call, calls[c] \in {None, call[c]}, NEW f, Changed(f, calls)
        PROVE  Goal
    <2>1. CASE call' = calls
      BY <1>2, <1>4, <2>1
    <2>2. CASE With(Request("bundles", f.network, None), calls)
      <3>1. Goal \/ call'[c] = Request("bundles", f.network, None)
        BY <1>3, <1>4, <2>2 DEF With
      <3>2. Request("bundles", f.network, None).op = "bundles"
        BY DEF Request, RequestWith
      <3>. QED
        BY <3>1, <3>2
    <2>. QED
      BY <1>4, <2>1, <2>2 DEF Changed, BundlesFetched
  <1>5. \A d \in Call : DOMAIN [call EXCEPT ![d] = None] = Call /\ [call EXCEPT ![d] = None][c] \in {None, call[c]}
    BY <1>1
  <1>6. ASSUME NEW d \in Call, NetworksAnswered(d) \/ DetectAnswered(d)
        PROVE  Goal
    <2>1. \/ call' = [call EXCEPT ![d] = None]
          \/ \E f : Changed(f, [call EXCEPT ![d] = None])
      BY <1>6 DEF NetworksAnswered, DetectAnswered, Ends
    <2>2. CASE call' = [call EXCEPT ![d] = None]
      BY <1>2, <1>5, <2>2
    <2>3. CASE \E f : Changed(f, [call EXCEPT ![d] = None])
      BY <1>4, <1>5, <2>3
    <2>. QED
      BY <2>1, <2>2, <2>3
  <1>7. ASSUME NEW d \in Call, BundlesAnswered(d) \/ InitiateAnswered(d) \/ PollAnswered(d)
        PROVE  Goal
    <2>1. call' \in {[call EXCEPT ![d] = None], NoCalls}
      BY <1>7 DEF BundlesAnswered, InitiateAnswered, PollAnswered, Ends
    <2>. QED
      BY <1>1, <1>2, <1>5, <2>1
  <1>8. ASSUME \/ \E digits \in {"few", "most", "all"} : Type(digits)
               \/ \E n \in Network : ChooseNetwork(n)
               \/ \E kind \in {"airtime", "data"} : ChooseType(kind)
        PROVE  Goal
    <2>1. \E f : Changed(f, call)
      BY <1>8 DEF Type, ChooseNetwork, ChooseType
    <2>. QED
      BY <1>1, <1>4, <2>1
  <1>9. ASSUME NEW op \in {"detect", "status"}, NEW arg, With(Request(op, arg, None), call)
        PROVE  Goal
    <2>1. Goal \/ call'[c] = Request(op, arg, None)
      BY <1>1, <1>3, <1>9 DEF With
    <2>2. Request(op, arg, None).op = op
      BY DEF Request, RequestWith
    <2>. QED
      BY <2>1, <2>2
  <1>10. ASSUME Detect \/ Poll
         PROVE  Goal
    <2>1. \E op \in {"detect", "status"} : \E arg : With(Request(op, arg, None), call)
      BY <1>10 DEF Detect, Poll, Send
    <2>. QED
      BY <1>9, <2>1
  <1>11. ASSUME Submit
         PROVE  Goal
    BY <1>1, <1>3, <1>11 DEF Submit, Send, With
  <1>12. ASSUME ChooseBundle
         PROVE  Goal
    BY <1>2, <1>12 DEF ChooseBundle
  <1>13. ASSUME PaymentReturned
         PROVE  Goal
    <2>1. Mounted(NoCalls, Restored) /\ ~InStore
      BY <1>13 DEF PaymentReturned, InStore, IsData
    <2>2. PICK d \in Free, op \in {"load", "config", "networks"}, t \in {0, Restored} :
             /\ call'[d] = RequestWith(op, None, None, t)
             /\ \A e \in Call \ {d} : call'[e] = NoCalls[e]
             /\ op = "load" => IsData
             /\ op = "config" <=> page.kind = "wheel"
      BY <1>1, <2>1, MountedFields
    <2>3. call'[d].op = op /\ op = "networks"
      BY <2>2 DEF RequestWith, IsData
    <2>. QED
      BY <1>1, <2>2, <2>3
  <1>. QED
    <2>. HIDE DEF Goal
    <2>1. Goal
      BY <1>6, <1>7, <1>8, <1>10, <1>11, <1>12, <1>13 DEF RechargeStep
    <2>. QED
      BY <2>1 DEF Goal

------------------------------------------------------------------------------
(* The recharge form.                                                      *)

\* Whatever the order in which the default, the detection and the user set the network, the choice
\* is forgotten with the list it was made from.
LEMMA FormStep ==
  ASSUME TypeOK, FormInv, [Next]_vars
  PROVE  FormInv'
  <1>1. form \in FormType
    BY DEF TypeOK
  <1>2. ASSUME UNCHANGED form PROVE FormInv'
    BY <1>2 DEF FormInv
  <1>3. ASSUME form' = EmptyForm PROVE FormInv'
    BY <1>3 DEF FormInv, EmptyForm
  <1>4. ASSUME NEW calls, NEW f \in FormType, Changed(f, calls), f.late = form.late, f.offers = form.offers,
               f.bundle \in {None, form.bundle}
        PROVE  FormInv'
    <2>1. CASE form' = f /\ f.network = form.network /\ f.kind = form.kind
      BY <1>4, <2>1 DEF FormInv
    <2>2. CASE form' = [f EXCEPT !.offers = None, !.bundle = None, !.late = FALSE]
      <3>1. form'.offers = None /\ form'.bundle = None
        BY <2>2 DEF FormType
      <3>. QED
        BY <3>1 DEF FormInv
    <2>. QED
      BY <1>4, <2>1, <2>2, ChangedForm
  <1>5. CASE AnyStep
    <2>1. form' = form \/ form' = EmptyForm
      BY <1>5 DEF AnyStep, Serve, Lost, Unauthorized, Session, Open, Leave, BrowserReload, Login, Expires, SignOut,
                  SignedOut, Emptied, TheWheel, Spin, Stops, Reset, Publish, RechargeSettles, vars, order
    <2>. QED
      BY <1>2, <1>3, <2>1
  <1>6. CASE DataStep \/ WheelStep
    BY <1>2, <1>6 DEF DataStep, WheelStep, LoadAnswered, ActAnswered, ActFails, Data, Refetch, Act, OthersWrite,
                      ConfigAnswered, SpinAnswered, order
  <1>7. CASE page.kind = "recharge" /\ RechargeStep
    <2>1. ASSUME NEW c \in Call, NetworksAnswered(c) \/ DetectAnswered(c)
          PROVE  FormInv'
      <3>1. \/ form' = form
            \/ \E m \in Network : Changed([form EXCEPT !.network = m], [call EXCEPT ![c] = None])
        <4>1. call[c] # None /\ IsRequest(call[c], Len(owner)) /\ page \in Pages /\ Len(owner) \in Nat
          BY <2>1 DEF NetworksAnswered, DetectAnswered, Back, TypeOK, IsCalls
        <4>2. call[c].answer \in AnswerOf(call[c].op)
          BY <4>1, RequestFacts
        <4>3. CASE NetworksAnswered(c)
          BY <4>2, <4>3 DEF NetworksAnswered, Back, AnswerOf
        <4>4. CASE DetectAnswered(c)
          BY <4>2, <4>4 DEF DetectAnswered, Back, AnswerOf
        <4>. QED
          BY <2>1, <4>3, <4>4
      <3>2. ASSUME NEW m \in Network, Changed([form EXCEPT !.network = m], [call EXCEPT ![c] = None])
            PROVE  FormInv'
        <4>. DEFINE f == [form EXCEPT !.network = m]
        <4>1. /\ f \in FormType /\ f.late = form.late /\ f.offers = form.offers /\ f.bundle = form.bundle
          BY <1>1 DEF FormType, Bundle
        <4>. HIDE DEF f
        <4>. QED
          BY <1>4, <3>2, <4>1 DEF f
      <3>. QED
        BY <1>2, <3>1, <3>2
    <2>2. ASSUME NEW c \in Call, BundlesAnswered(c)
          PROVE  FormInv'
      BY <1>1, <2>2 DEF BundlesAnswered, FormInv, FormType
    <2>3. ASSUME NEW c \in Call, InitiateAnswered(c) \/ PollAnswered(c)
          PROVE  FormInv'
      <3>1. form' = form \/ form' = EmptyForm
        BY <2>3 DEF InitiateAnswered, PollAnswered, order
      <3>. QED
        BY <1>2, <1>3, <3>1
    <2>4. ASSUME NEW digits \in {"few", "most", "all"}, Type(digits)
          PROVE  FormInv'
      <3>1. CASE digits = "all"
        <4>. DEFINE f == [form EXCEPT !.number = TRUE, !.waiting = {form.network}]
        <4>1. f \in FormType /\ f.late = form.late /\ f.offers = form.offers /\ f.bundle = form.bundle
          BY <1>1 DEF FormType
        <4>2. Changed(f, call)
          BY <2>4, <3>1 DEF Type
        <4>. HIDE DEF f
        <4>. QED
          BY <1>4, <4>1, <4>2
      <3>2. CASE digits = "most"
        <4>. DEFINE f == [form EXCEPT !.number = FALSE]
        <4>1. f \in FormType /\ f.late = form.late /\ f.offers = form.offers /\ f.bundle = form.bundle
          BY <1>1 DEF FormType
        <4>2. Changed(f, call)
          BY <2>4, <3>2 DEF Type
        <4>. HIDE DEF f
        <4>. QED
          BY <1>4, <4>1, <4>2
      <3>3. CASE digits = "few"
        <4>. DEFINE f == [form EXCEPT !.number = FALSE, !.network = None]
        <4>1. f \in FormType /\ f.late = form.late /\ f.offers = form.offers /\ f.bundle = form.bundle
          BY <1>1 DEF FormType, Bundle
        <4>2. Changed(f, call)
          BY <2>4, <3>3 DEF Type
        <4>. HIDE DEF f
        <4>. QED
          BY <1>4, <4>1, <4>2
      <3>. QED
        BY <3>1, <3>2, <3>3
    <2>5. ASSUME NEW m \in Network, ChooseNetwork(m)
          PROVE  FormInv'
      <3>. DEFINE f == [form EXCEPT !.network = m, !.bundle = None]
      <3>1. f \in FormType /\ f.late = form.late /\ f.offers = form.offers /\ f.bundle = None
        BY <1>1 DEF FormType, Bundle
      <3>2. Changed(f, call)
        BY <2>5 DEF ChooseNetwork
      <3>. HIDE DEF f
      <3>. QED
        BY <1>4, <3>1, <3>2
    <2>6. ASSUME NEW kind \in {"airtime", "data"}, ChooseType(kind)
          PROVE  FormInv'
      <3>. DEFINE f == [form EXCEPT !.kind = kind, !.bundle = None]
      <3>1. f \in FormType /\ f.late = form.late /\ f.offers = form.offers /\ f.bundle = None
        BY <1>1 DEF FormType, Bundle
      <3>2. Changed(f, call)
        BY <2>6 DEF ChooseType
      <3>. HIDE DEF f
      <3>. QED
        BY <1>4, <3>1, <3>2
    <2>7. ASSUME Detect \/ ChooseBundle
          PROVE  FormInv'
      BY <1>1, <2>7 DEF Detect, ChooseBundle, FormInv, FormType
    <2>8. ASSUME Submit \/ PaymentReturned \/ Poll
          PROVE  FormInv'
      BY <1>2, <2>8 DEF Submit, PaymentReturned, Poll, order
    <2>. QED
      BY <1>7, <2>1, <2>2, <2>3, <2>4, <2>5, <2>6, <2>7, <2>8 DEF RechargeStep
  <1>. QED
    BY <1>5, <1>6, <1>7, StepsOfPage

LEMMA OrderStep ==
  ASSUME TypeOK, FormInv, OrderAsChosen, [Next]_vars
  PROVE  OrderAsChosen'
  <1>1. /\ page \in Pages /\ Len(owner) \in Nat /\ form \in FormType
    BY DEF TypeOK
  <1>2. SUFFICES ASSUME NEW c \in Call, call'[c] # None, call'[c].op = "initiate"
                 PROVE  LET o == call'[c].arg
                        IN  o.late \/ o.bundle = IF o.kind = "data" THEN o.network ELSE None
    BY DEF OrderAsChosen, UnderWay
  <1>3. page.kind = "recharge"
    <2>1. IsCalls(call', Len(owner')) /\ Len(owner') \in Nat
      BY CallsStep, SessionTypes
    <2>2. call'[c].op \in OpsOf(page.kind)
      BY <1>1, <1>2, <2>1, RequestFacts DEF IsCalls
    <2>3. page.kind \in {"data", "wheel", "recharge"}
      BY <1>1, PageFacts
    <2>. QED
      BY <1>2, <2>2, <2>3 DEF OpsOf
  <1>4. CASE call[c] # None /\ Same(call'[c], call[c])
    BY <1>2, <1>4 DEF Same, OrderAsChosen, UnderWay
  <1>5. CASE Submit /\ call'[c] = Request("initiate", [network |-> form.network, kind |-> form.kind,
                                           bundle |-> form.bundle, late |-> form.late], None)
    <2>1. call'[c].arg = [network |-> form.network, kind |-> form.kind, bundle |-> form.bundle, late |-> form.late]
      BY <1>5 DEF Request, RequestWith
    <2>2. form.late \/ form.bundle = IF form.kind = "data" THEN form.network ELSE None
      BY <1>1, <1>5 DEF Submit, FormInv, FormType
    <2>. QED
      BY <2>1, <2>2
  <1>6. \/ AnyStep /\ ~Spin
        \/ page.kind = "recharge" /\ RechargeStep
    BY <1>3, StepsOfPage DEF IsData, Spin, OnWheel
  <1>. QED
    BY <1>2, <1>3, <1>4, <1>5, <1>6, KeptRequests, KeptOnForm

------------------------------------------------------------------------------
(* Away from the page.                                                     *)

LEMMA NoCallsKept ==
  ASSUME call = NoCalls
  PROVE  /\ Cross(call) = NoCalls /\ CrossAll(call) = NoCalls
         /\ \A c \in Call : call[c] = None
  BY DEF NoCalls, Cross, CrossAll

\* What the client shows and asks for is dropped when the page is left or its user signed out.
LEMMA AwayStep ==
  ASSUME TypeOK, AwayInv, [Next]_vars
  PROVE  AwayInv'
  <1>1. page \in Pages /\ page' = page /\ wheel \in WheelType /\ receipt \in ReceiptType
    BY CallsStep DEF TypeOK
  <1>2. SUFFICES ASSUME at' = "home"
                 PROVE  /\ ~Lasting => call' = NoCalls
                        /\ IsData /\ ~Lasting => shown' = None
                        /\ page.kind = "wheel" => wheel'.slots = <<>> /\ wheel'.phase = "idle"
                        /\ page.kind = "recharge" => receipt'.state = "none"
    BY <1>1 DEF AwayInv, Lasting, IsData, NoCalls
  <1>. DEFINE Goal == /\ ~Lasting => call' = NoCalls
                      /\ IsData /\ ~Lasting => shown' = None
                      /\ page.kind = "wheel" => wheel'.slots = <<>> /\ wheel'.phase = "idle"
                      /\ page.kind = "recharge" => receipt'.state = "none"
  <1>3. InStore => Lasting
    BY <1>1, PageFacts DEF InStore, Lasting
  <1>4. ASSUME Emptied
        PROVE  wheel'.slots = <<>> /\ wheel'.phase = "idle" /\ receipt'.state = "none"
    BY <1>4 DEF Emptied, EmptyWheel, NoReceipt
  <1>5. ASSUME NEW calls, SignedOut(calls) PROVE Goal
    <2>1. Emptied /\ (~Lasting => call' = NoCalls /\ shown' = None)
      BY <1>5 DEF SignedOut
    <2>. QED
      BY <1>4, <2>1
  <1>6. ASSUME Leave \/ BrowserReload PROVE Goal
    <2>1. Emptied /\ (~Lasting => call' = NoCalls /\ shown' = None)
      BY <1>2, <1>3, <1>6 DEF Leave, BrowserReload
    <2>. QED
      BY <1>4, <2>1
  <1>7. ASSUME NEW c \in Call, InitiateAnswered(c), at = "page" PROVE Goal
    <2>1. call' = NoCalls /\ receipt' = NoReceipt("PENDING") /\ page.kind = "recharge"
      BY <1>2, <1>7 DEF InitiateAnswered, OnForm
    <2>. QED
      BY <2>1 DEF NoReceipt, IsData
  <1>8. ASSUME at = "home", UNCHANGED <<wheel, receipt>>, ~Lasting => call' = NoCalls,
               IsData /\ ~Lasting => shown' = None
        PROVE  Goal
    BY <1>8 DEF AwayInv
  <1>9. ASSUME at = "home", Lasting, UNCHANGED <<wheel, receipt>>
        PROVE  Goal
    BY <1>8, <1>9
  <1>10. ASSUME at = "home", NEW c \in Call, call[c] # None PROVE Lasting
    BY <1>10, NoCallsKept DEF AwayInv
  <1>11. ASSUME NEW c \in Call, Serve(c) \/ Lost(c) PROVE Goal
    <2>1. at = "home" /\ call[c] # None /\ UNCHANGED <<wheel, receipt>>
      BY <1>2, <1>11 DEF Serve, Lost, order
    <2>. QED
      BY <1>9, <1>10, <2>1
  <1>12. ASSUME NEW c \in Call, Unauthorized(c) PROVE Goal
    <2>1. CASE SignedOut([call EXCEPT ![c] = None])
      BY <1>5, <2>1
    <2>2. CASE ~SignedOut([call EXCEPT ![c] = None])
      <3>1. at = "home" /\ call[c] # None /\ UNCHANGED <<wheel, receipt>>
        BY <1>2, <1>12, <2>2 DEF Unauthorized, order
      <3>. QED
        BY <1>9, <1>10, <3>1
    <2>. QED
      BY <2>1, <2>2
  <1>13. ASSUME NEW u \in User, Login(u) PROVE Goal
    <2>1. at = "home" /\ UNCHANGED <<wheel, receipt, shown>>
      BY <1>2, <1>13 DEF Login, order, data
    <2>2. ~Lasting => call' = CrossAll(call)
      BY <1>3, <1>13 DEF Login
    <2>. QED
      BY <1>8, <2>1, <2>2, NoCallsKept DEF AwayInv
  <1>14. ASSUME \/ \E n \in DOMAIN owner : Expires(n)
                \/ UNCHANGED vars
         PROVE  Goal
    <2>1. at = "home" /\ UNCHANGED <<wheel, receipt, shown, call>>
      BY <1>2, <1>14 DEF Expires, order, data, vars
    <2>. QED
      BY <1>8, <2>1 DEF AwayInv
  <1>15. ASSUME TheWheel PROVE Goal
    <2>1. at = "home" /\ UNCHANGED <<receipt, shown>> /\ ~Spin
      BY <1>2, <1>15 DEF TheWheel, Spin, Stops, Reset, Publish, OnWheel, order, data
    <2>2. UNCHANGED call
      BY <1>15, <2>1 DEF TheWheel, Stops, Reset, Publish
    <2>3. page.kind = "wheel" => wheel'.slots = <<>> /\ wheel'.phase = "idle"
      BY <1>1, <1>15, <2>1 DEF TheWheel, Stops, Reset, Publish, AwayInv, WheelType
    <2>. QED
      BY <2>1, <2>2, <2>3 DEF AwayInv
  <1>16. ASSUME NEW status \in Settled, RechargeSettles(status) PROVE Goal
    <2>1. at = "home" /\ UNCHANGED <<wheel, shown, call>> /\ receipt'.state = receipt.state
      BY <1>1, <1>2, <1>16 DEF RechargeSettles, ReceiptType, data
    <2>. QED
      BY <2>1 DEF AwayInv
  <1>17. CASE AnyStep
    <2>1. ASSUME NEW cleared \in BOOLEAN, SignOut(cleared) PROVE Goal
      BY <1>5, <2>1 DEF SignOut
    <2>2. ~Open
      BY <1>2 DEF Open
    <2>. HIDE DEF Goal
    <2>3. Goal
      BY <1>6, <1>11, <1>12, <1>13, <1>14, <1>15, <1>16, <1>17, <2>1, <2>2 DEF AnyStep, Session
    <2>. QED
      BY <2>3 DEF Goal
  <1>18. CASE IsData /\ DataStep
    <2>1. at = "home" /\ UNCHANGED <<wheel, receipt>>
      BY <1>2, <1>18 DEF DataStep, LoadAnswered, ActAnswered, ActFails, Data, Refetch, Act, OthersWrite, order
    <2>2. ASSUME NEW c \in Call, LoadAnswered(c) \/ ActAnswered(c) \/ ActFails(c) PROVE Goal
      <3>1. call[c] # None
        BY <2>2 DEF LoadAnswered, ActAnswered, ActFails, Back
      <3>. QED
        BY <1>9, <1>10, <2>1, <3>1
    <2>3. ASSUME Refetch PROVE Goal
      <3>1. Lasting
        BY <1>1, <2>1, <2>3, PageFacts DEF Refetch, Lasting
      <3>. QED
        BY <1>9, <2>1, <3>1
    <2>4. ASSUME NEW u \in User, NEW v \in Value, OthersWrite(u, v) PROVE Goal
      <3>1. call' = Cross(call) /\ UNCHANGED shown
        BY <2>4 DEF OthersWrite
      <3>. QED
        BY <1>8, <2>1, <3>1, NoCallsKept DEF AwayInv
    <2>5. ASSUME NEW v \in Value, NEW how \in {"reread", "before", "after"} PROVE ~Act(v, how)
      BY <2>1 DEF Act
    <2>. HIDE DEF Goal
    <2>6. Goal
      BY <1>18, <2>2, <2>3, <2>4, <2>5 DEF DataStep, Data
    <2>. QED
      BY <2>6 DEF Goal
  <1>19. CASE page.kind = "wheel" /\ WheelStep
    <2>1. PICK c \in Call : ConfigAnswered(c) \/ SpinAnswered(c)
      BY <1>19 DEF WheelStep
    <2>2. at = "home" /\ call[c] # None /\ ~Lasting
      BY <1>2, <1>19, <2>1 DEF ConfigAnswered, SpinAnswered, Back, Lasting, IsData
    <2>. QED
      BY <1>10, <2>2
  <1>20. CASE page.kind = "recharge" /\ RechargeStep
    <2>1. CASE at = "page"
      <3>1. \E c \in Call : InitiateAnswered(c)
        BY <1>2, <1>20, <2>1 DEF RechargeStep, NetworksAnswered, DetectAnswered, BundlesAnswered, PollAnswered,
               Type, ChooseNetwork, ChooseType, Detect, ChooseBundle, Submit, PaymentReturned, Poll
      <3>. QED
        BY <1>7, <2>1, <3>1
    <2>2. CASE at # "page"
      BY <1>2, <1>20, <2>2 DEF RechargeStep, NetworksAnswered, DetectAnswered, BundlesAnswered, PollAnswered,
               InitiateAnswered, Type, ChooseNetwork, ChooseType, Detect, ChooseBundle, Submit, PaymentReturned,
               Poll, Filling, OnForm
    <2>. QED
      BY <2>1, <2>2
  <1>. QED
    <2>. HIDE DEF Goal
    <2>1. Goal
      BY <1>17, <1>18, <1>19, <1>20, StepsOfPage DEF Goal
    <2>. QED
      BY <2>1 DEF Goal

------------------------------------------------------------------------------
(* The receipt.                                                            *)

\* A receipt that is pending has a question under way, or a timer that will ask, until the last.
LEMMA PolledStep ==
  ASSUME TypeOK, AwayInv, PendingIsPolled, [Next]_vars
  PROVE  PendingIsPolled'
  <1>1. /\ page \in Pages /\ Len(owner) \in Nat /\ receipt \in ReceiptType /\ IsCalls(call, Len(owner))
        /\ page' = page /\ DOMAIN call = Call
    BY CallsStep DEF TypeOK, IsCalls
  <1>2. SUFFICES ASSUME at' = "page", page.kind = "recharge", receipt'.state = "pending"
                 PROVE  PendingIsPolled'
    BY <1>1 DEF PendingIsPolled, OnForm
  <1>3. ~page.gated /\ ~IsData /\ ~InStore /\ ~Lasting
    BY <1>1, <1>2, PageFacts DEF IsData, InStore, Lasting
  <1>4. ASSUME receipt'.timer \/ receipt'.tries = MaxPolls
        PROVE  PendingIsPolled'
    BY <1>4 DEF PendingIsPolled
  <1>5. ASSUME NEW c \in Call, call'[c] # None, call'[c].op = "status"
        PROVE  PendingIsPolled'
    BY <1>5 DEF PendingIsPolled, UnderWay
  \* The receipt as it was, and no question answered.
  <1>6. ASSUME at = "page", UNCHANGED receipt,
               \A c \in UnderWay("status") : call'[c] # None /\ call'[c].op = "status"
        PROVE  PendingIsPolled'
    <2>1. receipt.timer \/ UnderWay("status") # {} \/ receipt.tries = MaxPolls
      BY <1>2, <1>6 DEF PendingIsPolled, OnForm
    <2>2. CASE receipt.timer \/ receipt.tries = MaxPolls
      BY <1>4, <1>6, <2>2
    <2>3. CASE UnderWay("status") # {}
      <3>1. PICK c \in UnderWay("status") : TRUE
        BY <2>3
      <3>. QED
        BY <1>5, <1>6, <3>1 DEF UnderWay
    <2>. QED
      BY <2>1, <2>2, <2>3
  <1>7. ASSUME NEW c \in UnderWay("status")
        PROVE  call[c].state # "denied" /\ ~call[c].late /\ call[c] # None /\ call[c].op = "status"
    BY <1>1, <1>7, RequestFacts DEF IsCalls, UnderWay, Guarded
  <1>8. ASSUME NEW c \in Call, Serve(c) PROVE PendingIsPolled'
    <2>1. at = "page" /\ UNCHANGED receipt
      BY <1>2, <1>8 DEF Serve, order
    <2>2. ASSUME NEW d \in UnderWay("status") PROVE call'[d] # None /\ call'[d].op = "status"
      BY <1>1, <1>7, <1>8, ServeFields, CrossFields DEF UnderWay, Same
    <2>. QED
      BY <1>6, <2>1, <2>2
  <1>9. ASSUME NEW c \in Call, Lost(c) PROVE PendingIsPolled'
    <2>1. at = "page" /\ UNCHANGED receipt
      BY <1>2, <1>9 DEF Lost, order
    <2>2. ASSUME NEW d \in UnderWay("status") PROVE call'[d] # None /\ call'[d].op = "status"
      BY <1>7, <1>9, LostFields DEF UnderWay, Same
    <2>. QED
      BY <1>6, <2>1, <2>2
  <1>10. ASSUME NEW c \in Call, Unauthorized(c) PROVE PendingIsPolled'
    <2>1. /\ at = "page" /\ UNCHANGED receipt /\ call' = [call EXCEPT ![c] = None]
          /\ call[c].state = "denied"
      BY <1>2, <1>3, <1>10 DEF Unauthorized, SignedOut, Ends, order
    <2>2. ASSUME NEW d \in UnderWay("status") PROVE call'[d] # None /\ call'[d].op = "status"
      BY <1>1, <1>7, <2>1 DEF UnderWay
    <2>. QED
      BY <1>6, <2>1, <2>2
  <1>11. ASSUME NEW u \in User, Login(u) PROVE PendingIsPolled'
    <2>1. at = "page" /\ UNCHANGED receipt /\ call' = CrossAll(call)
      BY <1>2, <1>3, <1>11 DEF Login, order
    <2>2. ASSUME NEW d \in UnderWay("status") PROVE call'[d] # None /\ call'[d].op = "status"
      BY <1>1, <1>7, <2>1, CrossAllFields DEF UnderWay, Same
    <2>. QED
      BY <1>6, <2>1, <2>2
  <1>12. ASSUME Open PROVE PendingIsPolled'
    BY <1>2, <1>12 DEF Open, AwayInv, order
  <1>13. ASSUME Emptied PROVE PendingIsPolled'
    BY <1>2, <1>13 DEF Emptied, NoReceipt
  <1>14. ASSUME UNCHANGED <<at, call, receipt>> PROVE PendingIsPolled'
    BY <1>2, <1>6, <1>14 DEF UnderWay
  <1>15. ASSUME NEW status \in Settled, RechargeSettles(status) PROVE PendingIsPolled'
    <2>1. /\ at = "page" /\ UNCHANGED call /\ receipt'.state = receipt.state
          /\ receipt'.timer = receipt.timer /\ receipt'.tries = receipt.tries
      BY <1>1, <1>2, <1>15 DEF RechargeSettles, ReceiptType
    <2>. QED
      BY <1>2, <2>1 DEF PendingIsPolled, OnForm, UnderWay
  <1>16. CASE AnyStep
    <2>1. ~Spin
      BY <1>2 DEF Spin, OnWheel
    <2>2. ASSUME NEW cleared \in BOOLEAN PROVE ~SignOut(cleared)
      BY <1>3 DEF SignOut
    <2>3. ASSUME Leave \/ BrowserReload PROVE Emptied
      BY <2>3 DEF Leave, BrowserReload
    <2>4. ASSUME \/ \E n \in DOMAIN owner : Expires(n)
                 \/ Stops \/ Reset \/ (\E i \in DOMAIN Wheels : Publish(Wheels[i]))
                 \/ UNCHANGED vars
          PROVE  UNCHANGED <<at, call, receipt>>
      BY <2>4 DEF Expires, Stops, Reset, Publish, vars, order
    <2>. QED
      BY <1>8, <1>9, <1>10, <1>11, <1>12, <1>13, <1>14, <1>15, <1>16, <2>1, <2>2, <2>3, <2>4
         DEF AnyStep, Session, TheWheel
  <1>17. CASE page.kind = "recharge" /\ RechargeStep
    <2>1. ASSUME NEW c \in Call, call[c] # None, call[c].op # "status", UNCHANGED receipt, at = "page",
                 NEW calls, calls = [call EXCEPT ![c] = None],
                 \/ call' = calls
                 \/ \E f : Changed(f, calls)
          PROVE  PendingIsPolled'
      <3>1. ASSUME NEW d \in UnderWay("status") PROVE d \notin Free /\ calls[d] = call[d] /\ d \in Call
        BY <1>1, <1>7, <2>1 DEF Free, UnderWay
      <3>2. ASSUME NEW d \in UnderWay("status") PROVE call'[d] = call[d]
        <4>1. CASE call' = calls
          BY <3>1, <3>2, <4>1
        <4>2. CASE \E f : With(Request("bundles", f.network, None), calls)
          <5>1. PICK f : With(Request("bundles", f.network, None), calls)
            BY <4>2
          <5>2. PICK e \in Free : call' = [calls EXCEPT ![e] = Request("bundles", f.network, None)]
            BY <5>1 DEF With
          <5>. QED
            BY <3>1, <3>2, <5>2
        <4>. QED
          BY <2>1, <4>1, <4>2 DEF Changed, BundlesFetched
      <3>. QED
        BY <1>6, <1>7, <2>1, <3>2
    <2>2. ASSUME NEW c \in Call, \/ NetworksAnswered(c) \/ DetectAnswered(c) \/ BundlesAnswered(c)
                                 \/ InitiateAnswered(c)
          PROVE  PendingIsPolled'
      <3>1. /\ call[c] # None /\ call[c].op # "status" /\ at = "page"
        BY <2>2 DEF NetworksAnswered, DetectAnswered, BundlesAnswered, InitiateAnswered, Back, OnForm
      <3>2. UNCHANGED receipt
        BY <1>2, <2>2 DEF NetworksAnswered, DetectAnswered, BundlesAnswered, InitiateAnswered, order
      <3>3. \/ call' = [call EXCEPT ![c] = None]
            \/ \E f : Changed(f, [call EXCEPT ![c] = None])
        BY <1>2, <2>2 DEF NetworksAnswered, DetectAnswered, BundlesAnswered, InitiateAnswered, Ends
      <3>. QED
        BY <2>1, <3>1, <3>2, <3>3
    <2>3. ASSUME NEW c \in Call, PollAnswered(c) PROVE PendingIsPolled'
      <3>. DEFINE last == receipt.tries = MaxPolls
      <3>1. receipt' = CASE call[c].answer = None      -> [receipt EXCEPT !.timer = ~last]
                         [] call[c].answer = "SUCCESS" -> [receipt EXCEPT !.state = "done"]
                         [] call[c].answer = "FAILED"  -> [receipt EXCEPT !.state = "none"]
                         [] OTHER -> [receipt EXCEPT !.timer = ~last,
                                                     !.state = IF last THEN "timedOut" ELSE @]
        BY <2>3 DEF PollAnswered
      <3>2. \/ call[c].answer = None /\ receipt' = [receipt EXCEPT !.timer = ~last]
            \/ receipt' = [receipt EXCEPT !.state = "done"]
            \/ receipt' = [receipt EXCEPT !.state = "none"]
            \/ receipt' = [receipt EXCEPT !.timer = ~last, !.state = IF last THEN "timedOut" ELSE @]
        BY <3>1
      <3>3. receipt' = [receipt EXCEPT !.state = "done"] => receipt'.state # "pending"
        BY <1>1 DEF ReceiptType
      <3>4. receipt' = [receipt EXCEPT !.state = "none"] => receipt'.state # "pending"
        BY <1>1 DEF ReceiptType
      <3>5. CASE receipt' = [receipt EXCEPT !.timer = ~last]
        BY <1>1, <1>4, <3>5 DEF ReceiptType
      <3>6. CASE receipt' = [receipt EXCEPT !.timer = ~last, !.state = IF last THEN "timedOut" ELSE @]
        BY <1>1, <1>2, <1>4, <3>6 DEF ReceiptType
      <3>. QED
        BY <1>2, <3>2, <3>3, <3>4, <3>5, <3>6
    <2>4. ASSUME UNCHANGED receipt, at = "page", \E op, arg : With(Request(op, arg, None), call)
          PROVE  PendingIsPolled'
      <3>1. PICK op, arg : With(Request(op, arg, None), call)
        BY <2>4
      <3>2. PICK e \in Free : call' = [call EXCEPT ![e] = Request(op, arg, None)]
        BY <3>1 DEF With
      <3>3. ASSUME NEW d \in UnderWay("status") PROVE call'[d] = call[d]
        BY <3>2 DEF Free, UnderWay
      <3>. QED
        BY <1>6, <1>7, <2>4, <3>3
    <2>5. ASSUME \/ \E digits \in {"few", "most", "all"} : Type(digits)
                 \/ \E n \in Network : ChooseNetwork(n)
                 \/ \E kind \in {"airtime", "data"} : ChooseType(kind)
          PROVE  PendingIsPolled'
      <3>1. UNCHANGED receipt /\ at = "page" /\ \E f : Changed(f, call)
        BY <2>5 DEF Type, ChooseNetwork, ChooseType, Filling, OnForm
      <3>2. \/ call' = call
            \/ \E f : With(Request("bundles", f.network, None), call)
        BY <3>1 DEF Changed, BundlesFetched
      <3>3. CASE call' = call
        BY <1>2, <1>14, <3>1, <3>3
      <3>. QED
        BY <2>4, <3>1, <3>2, <3>3
    <2>6. ASSUME Detect \/ Submit PROVE PendingIsPolled'
      <3>1. UNCHANGED receipt /\ at = "page" /\ \E op, arg : With(Request(op, arg, None), call)
        BY <2>6 DEF Detect, Submit, Filling, OnForm, Send, order
      <3>. QED
        BY <2>4, <3>1
    <2>7. ASSUME ChooseBundle PROVE PendingIsPolled'
      BY <1>14, <2>7 DEF ChooseBundle
    <2>8. ASSUME PaymentReturned PROVE PendingIsPolled'
      <3>1. receipt'.timer
        BY <1>2, <2>8 DEF PaymentReturned, NoReceipt
      <3>. QED
        BY <1>4, <3>1
    <2>9. ASSUME Poll PROVE PendingIsPolled'
      <3>1. With(Request("status", None, None), call)
        BY <2>9 DEF Poll, Send
      <3>2. "status" \in OpsOf(page.kind) /\ None \in ArgOf("status")
        BY <1>2 DEF OpsOf, ArgOf
      <3>3. PICK c \in Free : call'[c] = Request("status", None, None) /\ call'[c] # None
        BY <1>1, <3>1, <3>2, SentNow
      <3>4. c \in Call /\ call'[c].op = "status"
        BY <3>3 DEF Free, Request, RequestWith
      <3>. QED
        BY <1>5, <3>3, <3>4
    <2>. QED
      BY <1>17, <2>2, <2>3, <2>5, <2>6, <2>7, <2>8, <2>9 DEF RechargeStep
  <1>. QED
    BY <1>2, <1>3, <1>16, <1>17, StepsOfPage

\* Nothing is under way or on screen at first.
LEMMA InvInit ==
  ASSUME Init
  PROVE  /\ TypeOK /\ AwayInv /\ FormInv /\ OrderAsChosen /\ PendingIsPolled
         /\ ConfigInv /\ LandedInv
  <1>1. call = NoCalls /\ at = "home" /\ shown = None /\ form = EmptyForm /\ receipt = NoReceipt(None)
        /\ \E w \in Published : wheel = EmptyWheel(w)
    <2>1. PICK i \in IF page.kind = "wheel" THEN DOMAIN Wheels ELSE {1} : wheel = EmptyWheel(Wheels[i])
      BY DEF Init
    <2>2. i \in DOMAIN Wheels
      BY WebAssumption
    <2>. QED
      BY <2>1, <2>2 DEF Init, Published
  <1>2. \A c \in Call : call[c] = None
    BY <1>1, NoCallsKept
  <1>3. wheel.slots = <<>> /\ wheel.phase = "idle" /\ receipt.state = "none"
    BY <1>1 DEF EmptyWheel, NoReceipt
  <1>4. form.offers = None /\ form.bundle = None
    BY <1>1 DEF EmptyForm
  <1>. QED
    BY <1>1, <1>2, <1>3, <1>4, TypeInit
       DEF AwayInv, FormInv, OrderAsChosen, PendingIsPolled, ConfigInv, LandedInv, UnderWay, OnForm

\* A recharge that is ordered is the one that was chosen: a data order carries a bundle of its
\* network and an airtime order none, whichever of the user, the default and the detection set the
\* network last, unless the list of another network came late.
THEOREM OrdersAsChosen == Spec => []OrderAsChosen
  <1>. DEFINE Inv == TypeOK /\ FormInv /\ OrderAsChosen
  <1>1. Init => Inv
    BY InvInit
  <1>2. Inv /\ [Next]_vars => Inv'
    <2>. SUFFICES ASSUME Inv, [Next]_vars PROVE Inv'
      OBVIOUS
    <2>. QED
      BY TypeStep, FormStep, OrderStep
  <1>. QED
    BY <1>1, <1>2, PTL DEF Spec

\* A receipt that says the recharge is under way has a question under way or a timer that will ask
\* again, until the last try, whichever answers were lost and however often the page was left.
THEOREM PendingPolled == Spec => []PendingIsPolled
  <1>. DEFINE Inv == TypeOK /\ AwayInv /\ PendingIsPolled
  <1>1. Init => Inv
    BY InvInit
  <1>2. Inv /\ [Next]_vars => Inv'
    <2>. SUFFICES ASSUME Inv, [Next]_vars PROVE Inv'
      OBVIOUS
    <2>. QED
      BY TypeStep, AwayStep, PolledStep
  <1>. QED
    BY <1>1, <1>2, PTL DEF Spec

------------------------------------------------------------------------------
(* The wheel on screen.                                                    *)

\* The configuration is asked for as the page opens, when there is nothing on the wheel, and nothing
\* else until it is answered: what can be spun is on screen only then.
LEMMA ConfigStep ==
  ASSUME TypeOK, AwayInv, ConfigInv, page.kind = "wheel", [Next]_vars
  PROVE  ConfigInv'
  <1>1. /\ page \in Pages /\ Len(owner) \in Nat /\ IsCalls(call, Len(owner)) /\ DOMAIN call = Call
        /\ wheel \in WheelType /\ token \in 0..Len(owner)
    BY DEF TypeOK, IsCalls
  <1>2. page.gated /\ ~IsData /\ ~InStore /\ ~Lasting
    BY <1>1, PageFacts DEF IsData, InStore, Lasting
  <1>3. SUFFICES ASSUME NEW c \in Call, call'[c] # None, call'[c].op = "config"
                 PROVE  /\ wheel'.slots = <<>> /\ wheel'.phase = "idle"
                        /\ \A d \in Call : call'[d] # None => d = c
    BY DEF ConfigInv, UnderWay
  <1>. DEFINE Goal == /\ wheel'.slots = <<>> /\ wheel'.phase = "idle"
                      /\ \A d \in Call : call'[d] # None => d = c
  \* The wheel as it was, and no request that was not there.
  <1>4. ASSUME wheel'.slots = wheel.slots, wheel'.phase = wheel.phase,
               \A d \in Call : call'[d] # None => call[d] # None /\ call'[d].op = call[d].op
        PROVE  Goal
    BY <1>3, <1>4 DEF ConfigInv, UnderWay
  <1>5. call' # NoCalls
    BY <1>3 DEF NoCalls
  \* The first request of a page that opens.
  <1>6. ASSUME NEW tok \in 0..Len(owner), Mounted(NoCalls, tok), wheel'.slots = <<>>, wheel'.phase = "idle"
        PROVE  Goal
    <2>1. IsCalls(NoCalls, Len(owner)) /\ \A e \in Call : NoCalls[e] = None
      BY CallsMarked DEF NoCalls, IsCalls
    <2>2. PICK d \in Free : \A e \in Call \ {d} : call'[e] = NoCalls[e]
      BY <1>1, <1>2, <1>6, <2>1, MountedFields
    <2>. QED
      BY <1>3, <1>6, <2>1, <2>2
  <1>7. ASSUME NEW d \in Call, Serve(d) PROVE Goal
    <2>1. \A e \in Call : call'[e] # None => call[e] # None /\ call'[e].op = call[e].op
      <3>1. \A e \in Call : Cross(call)[e] # None => call[e] # None /\ Cross(call)[e].op = call[e].op
        BY <1>1, CrossFields DEF Same
      <3>. QED
        BY <1>7, <3>1, ServeFields DEF Same
    <2>. QED
      BY <1>4, <1>7, <2>1 DEF Serve
  <1>8. ASSUME NEW d \in Call, Lost(d) PROVE Goal
    <2>1. \A e \in Call : call'[e] # None => call[e] # None /\ call'[e].op = call[e].op
      BY <1>8, LostFields DEF Same
    <2>. QED
      BY <1>4, <1>8, <2>1 DEF Lost
  <1>9. ASSUME NEW d \in Call, Unauthorized(d) PROVE Goal
    <2>1. CASE SignedOut([call EXCEPT ![d] = None])
      BY <1>2, <1>5, <2>1 DEF SignedOut
    <2>2. CASE ~SignedOut([call EXCEPT ![d] = None])
      <3>1. call' = [call EXCEPT ![d] = None] /\ UNCHANGED wheel
        BY <1>9, <2>2 DEF Unauthorized, Ends
      <3>. QED
        BY <1>1, <1>4, <3>1
    <2>. QED
      BY <2>1, <2>2
  <1>10. ASSUME at = "home" PROVE call = NoCalls /\ wheel.slots = <<>> /\ wheel.phase = "idle"
    BY <1>2, <1>10 DEF AwayInv
  <1>11. ASSUME Open PROVE Goal
    <2>1. Superseded = NoCalls
      BY <1>10, <1>11 DEF Open, Superseded, NoCalls
    <2>. QED
      BY <1>1, <1>6, <1>10, <1>11, <2>1 DEF Open
  <1>12. ASSUME BrowserReload PROVE Goal
    <2>1. Mounted(NoCalls, Restored) /\ Restored \in 0..Len(owner)
      BY <1>5, <1>12 DEF BrowserReload, Restored, TypeOK
    <2>2. wheel'.slots = <<>> /\ wheel'.phase = "idle"
      BY <1>12 DEF BrowserReload, Emptied, EmptyWheel
    <2>. QED
      BY <1>6, <2>1, <2>2
  <1>13. ~Leave /\ \A cleared \in BOOLEAN : ~SignOut(cleared)
    BY <1>2, <1>5 DEF Leave, SignOut, SignedOut
  <1>14. ASSUME NEW u \in User PROVE ~Login(u)
    BY <1>2, <1>5, <1>10, NoCallsKept DEF Login
  <1>15. ASSUME UNCHANGED call, wheel'.slots = wheel.slots, wheel'.phase = wheel.phase PROVE Goal
    BY <1>4, <1>15
  <1>16. ASSUME UNCHANGED call PROVE wheel.phase = "idle"
    BY <1>3, <1>16 DEF ConfigInv, UnderWay
  <1>17. ASSUME \/ \E n \in DOMAIN owner : Expires(n)
                \/ UNCHANGED vars
                \/ \E status \in Settled : RechargeSettles(status)
         PROVE  Goal
    BY <1>15, <1>17 DEF Expires, vars, RechargeSettles
  <1>18. ASSUME TheWheel PROVE Goal
    <2>1. ~Spin
      <3>. SUFFICES ASSUME Spin PROVE FALSE
        OBVIOUS
      <3>1. With(Request("play", None, None), call) /\ wheel.slots # <<>>
        BY DEF Spin, Send
      <3>2. "play" \in OpsOf(page.kind) /\ None \in ArgOf("play")
        BY DEF OpsOf, ArgOf
      <3>3. PICK d \in Free : /\ call'[d] = Request("play", None, None)
                              /\ \A e \in Call \ {d} : call'[e] = call[e]
        BY <1>1, <3>1, <3>2, SentNow
      <3>4. c # d
        BY <1>3, <3>3 DEF Request, RequestWith
      <3>. QED
        BY <1>3, <3>1, <3>3, <3>4 DEF ConfigInv, UnderWay
    <2>2. ~Stops /\ ~Reset
      BY <1>16 DEF Stops, Reset
    <2>3. ASSUME NEW i \in DOMAIN Wheels, Publish(Wheels[i]) PROVE Goal
      BY <1>1, <1>15, <2>3 DEF Publish, WheelType
    <2>. QED
      BY <1>18, <2>1, <2>2, <2>3 DEF TheWheel
  <1>19. CASE AnyStep
    <2>. HIDE DEF Goal
    <2>1. Goal
      BY <1>7, <1>8, <1>9, <1>11, <1>12, <1>13, <1>14, <1>17, <1>18, <1>19 DEF AnyStep, Session
    <2>. QED
      BY <2>1 DEF Goal
  <1>20. ASSUME WheelStep PROVE FALSE
    <2>1. PICK d \in Call : ConfigAnswered(d) \/ SpinAnswered(d)
      BY <1>20 DEF WheelStep
    <2>2. call' = [call EXCEPT ![d] = None] /\ call[d] # None /\ call[d].op \in {"config", "play"}
      BY <2>1 DEF ConfigAnswered, SpinAnswered, Back, Ends
    <2>3. c # d /\ call[c] # None /\ call[c].op = "config"
      BY <1>1, <1>3, <2>2
    <2>. QED
      BY <2>2, <2>3 DEF ConfigInv, UnderWay
  <1>. QED
    BY <1>2, <1>19, <1>20, StepsOfPage

\* The rotation changes only with the slices it was computed from.
LEMMA LandedStep ==
  ASSUME TypeOK, ConfigInv, LandedInv, [Next]_vars
  PROVE  LandedInv'
  <1>1. page \in Pages /\ page' = page /\ wheel \in WheelType /\ Len(owner) \in Nat /\ IsCalls(call, Len(owner))
    BY CallsStep DEF TypeOK
  <1>2. SUFFICES ASSUME page.kind = "wheel", page.whole, wheel'.phase \in {"turning", "stopped"}
                 PROVE  Under(wheel.slots)' = {wheel'.won}
    BY <1>1 DEF LandedInv
  <1>3. ASSUME wheel'.slots = wheel.slots, wheel'.won = wheel.won, wheel'.rotation = wheel.rotation,
               wheel.phase \in {"turning", "stopped"}
        PROVE  Under(wheel.slots)' = {wheel'.won}
    <2>1. Under(wheel.slots) = {wheel.won}
      BY <1>2, <1>3 DEF LandedInv
    <2>2. Under(wheel.slots)' = Under(wheel.slots)
      BY <1>1, <1>3 DEF Under, Start, Units
    <2>. QED
      BY <1>3, <2>1, <2>2
  <1>4. ASSUME NEW c \in Call, SpinAnswered(c) PROVE Under(wheel.slots)' = {wheel'.won}
    <2>1. ~Refused(c)
      <3>1. CASE Refused(c)
        <4>1. wheel' = [wheel EXCEPT !.phase = "idle"]
          BY <1>4, <3>1 DEF SpinAnswered
        <4>. QED
          BY <1>1, <1>2, <4>1 DEF WheelType
      <3>. QED
        BY <3>1
    <2>2. call[c] # None /\ call[c].op = "play" /\ IsRequest(call[c], Len(owner))
      BY <1>1, <1>4 DEF SpinAnswered, Back, IsCalls
    <2>3. call[c].answer \in AnswerOf("play") /\ call[c].answer # None
      BY <1>1, <2>1, <2>2, RequestFacts DEF Refused
    <2>4. PICK w \in Published, won \in Prize :
             w = call[c].answer.slots /\ won = call[c].answer.won /\ \E i \in DOMAIN w : w[i].prize = won
      BY <2>3 DEF AnswerOf, Spun
    <2>5. Valid(w)
      BY <2>1, <2>4 DEF Refused
    <2>6. PICK spare \in Spare, nudge \in Nudge(w, First(w, won)) :
             wheel' = [wheel EXCEPT !.slots = w, !.phase = "turning", !.won = won,
                          !.rotation = (Turn + spare + Landing(w, First(w, won)) + nudge) % Turn]
      BY <1>4, <2>1, <2>4 DEF SpinAnswered
    <2>7. /\ wheel'.slots = w /\ wheel'.won = won
          /\ wheel'.rotation = (Turn + spare + Landing(w, First(w, won)) + nudge) % Turn
      BY <1>1, <2>6 DEF WheelType
    <2>8. Under(w)' = {won}
      BY <1>1, <1>2, <2>4, <2>5, <2>7, WheelLands
    <2>9. Under(wheel.slots)' = Under(w)'
      BY <2>7 DEF Under, Start, Units
    <2>. QED
      BY <2>7, <2>8, <2>9
  <1>5. ASSUME NEW c \in Call PROVE ~ConfigAnswered(c)
    <2>. SUFFICES ASSUME ConfigAnswered(c) PROVE FALSE
      OBVIOUS
    <2>1. wheel.phase = "idle"
      BY DEF ConfigAnswered, Back, ConfigInv, UnderWay
    <2>2. wheel' = [wheel EXCEPT !.slots = IF call[c].answer = None THEN <<>> ELSE call[c].answer]
      BY DEF ConfigAnswered
    <2>. QED
      BY <1>1, <1>2, <2>1, <2>2 DEF WheelType
  <1>6. ~Emptied
    BY <1>2 DEF Emptied, EmptyWheel
  <1>7. ASSUME UNCHANGED wheel PROVE Under(wheel.slots)' = {wheel'.won}
    BY <1>2, <1>3, <1>7
  <1>8. ASSUME TheWheel PROVE Under(wheel.slots)' = {wheel'.won}
    <2>1. /\ wheel'.slots = wheel.slots /\ wheel'.won = wheel.won /\ wheel'.rotation = wheel.rotation
          /\ wheel.phase \in {"turning", "stopped"}
      BY <1>1, <1>2, <1>8 DEF TheWheel, Spin, Stops, Reset, Publish, WheelType
    <2>. QED
      BY <1>3, <2>1
  <1>9. CASE AnyStep
    <2>1. ASSUME NEW c \in Call, Serve(c) \/ Lost(c) \/ Unauthorized(c) PROVE UNCHANGED wheel
      BY <1>6, <2>1 DEF Serve, Lost, Unauthorized, SignedOut
    <2>2. ASSUME Session PROVE UNCHANGED wheel
      BY <1>6, <2>2 DEF Session, Open, Leave, BrowserReload, Login, Expires, SignOut, SignedOut
    <2>3. ASSUME \/ \E status \in Settled : RechargeSettles(status)
                 \/ UNCHANGED vars
          PROVE  UNCHANGED wheel
      BY <2>3 DEF RechargeSettles, vars
    <2>. QED
      BY <1>7, <1>8, <1>9, <2>1, <2>2, <2>3 DEF AnyStep
  <1>10. CASE WheelStep
    BY <1>4, <1>5, <1>10 DEF WheelStep
  <1>. QED
    BY <1>2, <1>9, <1>10, StepsOfPage DEF IsData

\* The wheel of the spin page stops on the prize the server drew, for every wheel that can be
\* published, every size of its slices and every prize on it, and whichever wheels were published
\* since the page was opened.
THEOREM WheelStopsOnPrize == Spec => []WheelShowsPrize
  <1>. DEFINE Inv == TypeOK /\ AwayInv /\ ConfigInv /\ LandedInv
  <1>1. Init => Inv
    BY InvInit
  <1>2. Inv /\ [Next]_vars => Inv'
    <2>. SUFFICES ASSUME Inv, [Next]_vars PROVE Inv'
      OBVIOUS
    <2>1. CASE page.kind = "wheel"
      BY <2>1, TypeStep, AwayStep, ConfigStep, LandedStep
    <2>2. CASE page.kind # "wheel"
      <3>1. TypeOK' /\ page' = page
        BY TypeStep, CallsStep
      <3>2. page' \in Pages /\ IsCalls(call', Len(owner')) /\ Len(owner') \in Nat
        BY <3>1 DEF TypeOK, IsCalls, IsRequest
      <3>3. ASSUME NEW c \in Call, call'[c] # None PROVE call'[c].op # "config"
        BY <2>2, <3>1, <3>2, <3>3, RequestFacts, OpFacts DEF IsCalls
      <3>4. ConfigInv'
        BY <3>3 DEF ConfigInv, UnderWay
      <3>5. LandedInv'
        BY <2>2, <3>1 DEF LandedInv
      <3>. QED
        BY <3>1, <3>4, <3>5, AwayStep
    <2>. QED
      BY <2>1, <2>2
  <1>3. Inv => WheelShowsPrize
    BY DEF LandedInv, WheelShowsPrize
  <1>. QED
    BY <1>1, <1>2, <1>3, PTL DEF Spec


------------------------------------------------------------------------------
(* Pages that show data: the steps, and what they do to the requests.      *)

LEMMA DataSteps ==
  ASSUME TypeOK, IsData, [Next]_vars
  PROVE  \/ \E c \in Call : \/ Serve(c) \/ Lost(c) \/ Unauthorized(c)
                            \/ LoadAnswered(c) \/ ActAnswered(c) \/ ActFails(c)
         \/ Open \/ Leave \/ BrowserReload
         \/ \E u \in User : Login(u)
         \/ \E cleared \in BOOLEAN : SignOut(cleared)
         \/ Refetch
         \/ \E v \in Value, how \in {"reread", "before", "after"} : Act(v, how)
         \/ \E u \in User, v \in Value : OthersWrite(u, v)
         \/ UNCHANGED <<page, at, owner, held, token, stored, shown, excused, call>>
  <1>1. page.kind # "wheel" /\ page.kind # "recharge"
    BY DEF IsData
  <1>2. CASE AnyStep
    <2>1. ASSUME TheWheel PROVE UNCHANGED <<page, at, owner, held, token, stored, shown, excused, call>>
      BY <1>1, <2>1 DEF TheWheel, Spin, Stops, Reset, Publish, OnWheel, session, data
    <2>2. ASSUME \/ \E n \in DOMAIN owner : Expires(n)
                 \/ \E status \in Settled : RechargeSettles(status)
                 \/ UNCHANGED vars
          PROVE  UNCHANGED <<page, at, owner, held, token, stored, shown, excused, call>>
      BY <2>2 DEF Expires, RechargeSettles, vars, session, data
    <2>. QED
      BY <1>2, <2>1, <2>2 DEF AnyStep, Session
  <1>3. CASE DataStep
    BY <1>3 DEF DataStep, Data
  <1>. QED
    BY <1>1, <1>2, <1>3, StepsOfPage

\* Once signed out nothing under way counts, and the data goes unless it is in the cache.
LEMMA SignedOutFields ==
  ASSUME TypeOK, IsData, NEW calls, IsCalls(calls, Len(owner)), SignedOut(calls)
  PROVE  /\ at' = "home" /\ held' = 0 /\ UNCHANGED <<page, owner, stored>>
         /\ ~Lasting => call' = NoCalls
         /\ \A c \in Call : call'[c] # None => call'[c].crossed /\ calls[c] # None /\ Same(call'[c], calls[c])
         /\ IF Lasting /\ ~InStore THEN UNCHANGED <<shown, excused>> ELSE shown' = None
  <1>1. page \in Pages /\ Len(owner) \in Nat
    BY DEF TypeOK
  <1>2. call' = NoCalls \/ call' = CrossAll(calls)
    BY DEF SignedOut
  <1>3. \A c \in Call : call'[c] # None => call'[c].crossed /\ calls[c] # None /\ Same(call'[c], calls[c])
    BY <1>1, <1>2, CrossAllFields DEF NoCalls
  <1>. QED
    BY <1>3 DEF SignedOut

\* A refused request that no page of the shell hears of excuses what is shown.
LEMMA UnauthorizedFields ==
  ASSUME TypeOK, IsData, NEW c \in Call, Unauthorized(c)
  PROVE  /\ token' = 0 /\ call[c] # None /\ IsCalls([call EXCEPT ![c] = None], Len(owner))
         /\ \A d \in Call : [call EXCEPT ![c] = None][d] # None => d # c /\ [call EXCEPT ![c] = None][d] = call[d]
         /\ \/ SignedOut([call EXCEPT ![c] = None])
            \/ /\ at = "home" /\ excused' = TRUE /\ call' = [call EXCEPT ![c] = None]
               /\ UNCHANGED <<page, at, owner, held, stored, shown>>
  <1>1. /\ page \in Pages /\ Len(owner) \in Nat /\ IsCalls(call, Len(owner)) /\ DOMAIN call = Call
        /\ at \in {"home", "page"} /\ page.gated
    BY PageFacts DEF TypeOK, IsCalls, IsData
  <1>. QED
    BY <1>1, CallsChanged DEF Unauthorized, Ends

\* A page that shows data reads as it opens, except the profile.
LEMMA MountedData ==
  ASSUME TypeOK, IsData, NEW calls, IsCalls(calls, Len(owner)), NEW tok \in 0..Len(owner), Mounted(calls, tok)
  PROVE  /\ InStore => call' = calls
         /\ ~InStore => \E d \in Free : /\ call'[d] = RequestWith("load", None, None, tok) /\ call'[d] # None
                                        /\ \A e \in Call \ {d} : call'[e] = calls[e]
  <1>1. Len(owner) \in Nat
    BY DEF TypeOK
  <1>. QED
    BY <1>1, MountedFields

\* What is read or changed is asked with the token of the client.
LEMMA AskedData ==
  ASSUME TypeOK, IsData, NEW calls, IsCalls(calls, Len(owner)), NEW op \in {"load", "act"},
         NEW arg \in ArgOf(op), NEW how \in {None, "reread", "before", "after"},
         op = "act" => how \in page.acts, With(Request(op, arg, how), calls)
  PROVE  \E d \in Free : /\ call'[d] = RequestWith(op, arg, how, token) /\ call'[d] # None
                         /\ \A e \in Call \ {d} : call'[e] = calls[e]
  <1>1. op \in OpsOf(page.kind)
    BY DEF IsData, OpsOf
  <1>2. Request(op, arg, how) = RequestWith(op, arg, how, token)
    BY DEF Request, Public
  <1>. QED
    BY <1>1, <1>2, SentNow

\* A change that was answered ends, or is followed by a reading.
LEMMA ActAnsweredFields ==
  ASSUME TypeOK, IsData, NEW c \in Call, ActAnswered(c)
  PROVE  /\ call[c] # None /\ call[c].op = "act" /\ call[c].state = "back" /\ call[c].answer # None
         /\ call[c].how \in page.acts /\ UNCHANGED <<page, at, owner, held, token, stored>>
         /\ \A d \in Call \ {c} : /\ call'[d] # None => call[d] # None /\ Same(call'[d], call[d])
                                  /\ call'[d] # None => /\ call'[d].state = call[d].state
                                                        /\ call'[d].answer = call[d].answer
                                                        /\ call'[d].crossed = call[d].crossed
                                  /\ call[d] # None /\ call[d].op # "load" => call'[d] = call[d]
                                  /\ call[c].how # "reread" => call'[d] = call[d]
         /\ \/ call[c].how = "reread" /\ at = "page" /\ UNCHANGED <<shown, excused>>
               /\ call'[c] = RequestWith("load", None, None, token) /\ call'[c] # None
            \/ call[c].how = "reread" /\ at = "home" /\ UNCHANGED <<shown, excused>> /\ call'[c] = None
            \/ call[c].how = "after" /\ shown' = call[c].answer /\ call'[c] = None
               /\ excused' = (excused \/ call[c].crossed)
            \/ call[c].how = "before" /\ UNCHANGED <<shown, excused>> /\ call'[c] = None
  <1>1. /\ page \in Pages /\ Len(owner) \in Nat /\ IsCalls(call, Len(owner)) /\ DOMAIN call = Call
        /\ at \in {"home", "page"} /\ token \in 0..Len(owner)
    BY DEF TypeOK, IsCalls
  <1>2. /\ call[c] # None /\ call[c].op = "act" /\ call[c].state = "back" /\ call[c].answer # None
        /\ UNCHANGED <<page, at, owner, held, token, stored>>
    BY DEF ActAnswered, Back, session
  <1>3. call[c].how \in page.acts /\ page.acts \subseteq {"reread", "before", "after"}
    BY <1>1, <1>2, RequestFacts, PageFacts DEF IsCalls
  <1>4. CASE call[c].how = "reread" /\ at = "page"
    <2>1. call' = [Superseded EXCEPT ![c] = Reading] /\ UNCHANGED <<shown, excused>>
      BY <1>4 DEF ActAnswered
    <2>2. DOMAIN Superseded = Call
      BY DEF Superseded
    <2>3. /\ \A d \in Call \ {c} : call'[d] = Superseded[d]
          /\ call'[c] = RequestWith("load", None, None, token)
      BY <2>1, <2>2 DEF Reading, Request, Public
    <2>4. call'[c] # None
      <3>1. "load" \in OpsOf(page.kind) /\ None \in ArgOf("load")
        BY DEF OpsOf, ArgOf, IsData
      <3>. QED
        BY <1>1, <2>3, <3>1, NewRequest
    <2>. QED
      BY <1>1, <1>2, <1>3, <1>4, <2>1, <2>3, <2>4, SupersededFields
  <1>5. CASE ~(call[c].how = "reread" /\ at = "page")
    <2>1. call' = [call EXCEPT ![c] = None]
      BY <1>1, <1>3, <1>5 DEF ActAnswered, Ends
    <2>2. call'[c] = None /\ \A d \in Call \ {c} : call'[d] = call[d]
      BY <1>1, <2>1
    <2>3. \/ call[c].how = "reread" /\ at = "home" /\ UNCHANGED <<shown, excused>>
          \/ call[c].how = "after" /\ shown' = call[c].answer /\ excused' = (excused \/ call[c].crossed)
          \/ call[c].how = "before" /\ UNCHANGED <<shown, excused>>
      BY <1>1, <1>3, <1>5 DEF ActAnswered
    <2>. QED
      BY <1>2, <1>3, <2>2, <2>3 DEF Same
  <1>. QED
    BY <1>4, <1>5


------------------------------------------------------------------------------
(* The token of each request, and what its answer is worth.                *)

\* A session ends for the store and for the client one after the other, but a request that counts
\* was sent with the token of the store, and its answer is what the server keeps of that user.
LEMMA TokenStep ==
  ASSUME TypeOK, AwayInv, TokenInv, AnswerInv, IsData, [Next]_vars
  PROVE  TokenInv' /\ AnswerInv'
  <1>1. /\ page \in Pages /\ page' = page /\ Len(owner) \in Nat /\ IsCalls(call, Len(owner))
        /\ at \in {"home", "page"} /\ held \in 0..Len(owner) /\ token \in 0..Len(owner) /\ owner \in Seq(User)
        /\ stored \in [User -> Value]
    BY CallsStep DEF TypeOK
  <1>2. page.gated /\ (InStore => Lasting)
    BY <1>1, PageFacts DEF IsData, InStore, Lasting
  <1>. DEFINE Token == (at' = "page" => held' # 0) /\ (held' # 0 => token' \in {0, held'})
              Good(c) == call'[c] # None /\ ~call'[c].crossed =>
                            /\ call'[c].tok \in {0, held'}
                            /\ call'[c].answer # None =>
                                  /\ call'[c].tok # 0
                                  /\ call'[c].answer = [user |-> owner'[call'[c].tok],
                                                        value |-> stored'[owner'[call'[c].tok]]]
  <1>3. SUFFICES Token /\ \A c \in Call : Good(c)
    BY <1>1 DEF TokenInv, AnswerInv, IsData
  <1>4. /\ at = "page" => held # 0
        /\ held # 0 => token \in {0, held}
    BY <1>2 DEF TokenInv
  \* A request that was there, and counts no more than it did.
  <1>5. ASSUME NEW c \in Call, UNCHANGED <<held, owner, stored>>,
               call'[c] # None => /\ call[c] # None /\ Same(call'[c], call[c])
                                  /\ call'[c].answer # None => call'[c].answer = call[c].answer
                                  /\ call[c].crossed => call'[c].crossed
        PROVE  Good(c)
    BY <1>5 DEF TokenInv, AnswerInv, Same
  <1>6. ASSUME NEW c \in Call, UNCHANGED <<held, owner, stored>>, call'[c] = call[c]
        PROVE  Good(c)
    BY <1>5, <1>6 DEF Same
  <1>7. ASSUME NEW c \in Call, NEW op, NEW arg, NEW how, NEW tok \in {0, held'},
               call'[c] = RequestWith(op, arg, how, tok)
        PROVE  Good(c)
    BY <1>7 DEF RequestWith
  <1>8. ASSUME NEW c \in Call, UNCHANGED <<held, owner, stored>>, call'[c] = Cross(call)[c]
        PROVE  Good(c)
    BY <1>1, <1>5, <1>8, CrossFields
  <1>9. ASSUME NEW c \in Call, UNCHANGED <<held, owner, stored>>, call'[c] = Superseded[c]
        PROVE  Good(c)
    BY <1>1, <1>5, <1>9, SupersededFields
  <1>10. ASSUME NEW c \in Call, UNCHANGED <<held, owner>>, call'[c] = Cross(call)[c]
         PROVE  Good(c)
    <2>1. CASE call[c] # None /\ call[c].state = "back"
      <3>1. call'[c] = Cross(call)[c] /\ (call'[c] # None => call'[c].crossed)
        BY <1>1, <1>10, <2>1, CrossFields
      <3>. QED
        BY <3>1
    <2>2. CASE ~(call[c] # None /\ call[c].state = "back")
      <3>1. call'[c] = call[c]
        BY <1>10, <2>2 DEF Cross
      <3>2. call[c] # None => call[c].answer = None
        BY <1>1, <2>2, RequestFacts DEF IsCalls
      <3>. QED
        BY <1>10, <3>1, <3>2 DEF TokenInv
    <2>. QED
      BY <2>1, <2>2
  <1>. DEFINE Goal == Token /\ \A c \in Call : Good(c)
  <1>11. ASSUME NEW c \in Call, Serve(c) PROVE Goal
    <2>1. UNCHANGED <<at, held, token, owner>>
      BY <1>11 DEF Serve, session
    <2>2. ASSUME NEW d \in Call \ {c} PROVE Good(d)
      <3>1. \/ stored' = stored /\ call'[d] = call[d]
            \/ call'[d] = Cross(call)[d]
        BY <1>11, ServeFields
      <3>. HIDE DEF Good
      <3>. QED
        BY <1>6, <1>10, <2>1, <3>1
    <2>3. Good(c)
      <3>1. CASE call'[c] = None
        BY <3>1
      <3>2. CASE call'[c] # None /\ call'[c].answer = None
        <4>1. Same(call'[c], call[c]) /\ call[c] # None /\ call'[c].crossed = call[c].crossed
          BY <1>11, <3>2, ServeFields
        <4>. QED
          BY <2>1, <3>2, <4>1 DEF TokenInv, Same
      <3>3. CASE call'[c] # None /\ call'[c].answer # None
        <4>. DEFINE q == call[c]
        <4>1. /\ q # None /\ ~(q.op \in Guarded /\ q.tok \in dead \cup {0}) /\ Same(call'[c], q)
              /\ call'[c].answer \in Answers(q) /\ call'[c].crossed = q.crossed
          BY <1>11, <3>3, ServeFields
        <4>2. IsRequest(q, Len(owner))
          BY <1>1, <4>1 DEF IsCalls
        <4>3. q.op \in {"load", "act"}
          BY <1>1, <4>2, RequestFacts DEF OpsOf, IsData
        <4>4. q.tok # 0 /\ owner[q.tok] \in User
          BY <4>1, <4>2, <4>3, TokenIssued DEF Guarded
        <4>5. call'[c].answer = [user |-> owner[q.tok], value |-> stored'[owner[q.tok]]]
          <5>1. CASE q.op = "load"
            <6>1. stored' = stored
              BY <1>11, <3>3, <5>1, ServeFields
            <6>2. call'[c].answer = [user |-> owner[q.tok], value |-> stored[owner[q.tok]]]
              BY <4>1, <4>2, <5>1, AnswerType
            <6>. QED
              BY <6>1, <6>2
          <5>2. CASE q.op = "act"
            <6>1. call'[c].answer = [user |-> owner[q.tok], value |-> q.arg]
              BY <3>3, <4>1, <4>2, <5>2, AnswerType
            <6>2. stored' = [stored EXCEPT ![call'[c].answer.user] = call'[c].answer.value]
              BY <1>11, <3>3, <5>2, ServeFields
            <6>3. stored'[owner[q.tok]] = q.arg
              BY <1>1, <4>4, <6>1, <6>2
            <6>. QED
              BY <6>1, <6>3
          <5>. QED
            BY <4>3, <5>1, <5>2
        <4>6. ~q.crossed => q.tok \in {0, held}
          BY <4>1 DEF TokenInv
        <4>. QED
          BY <2>1, <4>1, <4>4, <4>5, <4>6 DEF Same
      <3>. QED
        BY <3>1, <3>2, <3>3
    <2>. QED
      BY <1>4, <2>1, <2>2, <2>3
  <1>12. ASSUME NEW c \in Call, Lost(c) PROVE Goal
    <2>1. UNCHANGED <<at, held, token, owner, stored>>
      BY <1>12 DEF Lost, session, data
    <2>2. \A d \in Call \ {c} : Good(d)
      BY <1>6, <1>12, <2>1, LostFields
    <2>3. Good(c)
      BY <1>12, LostFields
    <2>. QED
      BY <1>4, <2>1, <2>2, <2>3
  <1>13. ASSUME NEW calls, IsCalls(calls, Len(owner)), SignedOut(calls) PROVE Goal
    BY <1>13, SignedOutFields
  <1>14. ASSUME NEW c \in Call, Unauthorized(c) PROVE Goal
    <2>1. CASE SignedOut([call EXCEPT ![c] = None])
      BY <1>13, <1>14, <2>1, UnauthorizedFields
    <2>2. CASE ~SignedOut([call EXCEPT ![c] = None])
      <3>1. /\ token' = 0 /\ UNCHANGED <<at, owner, held, stored>>
            /\ \A d \in Call : call'[d] # None => call'[d] = call[d]
        BY <1>14, <2>2, UnauthorizedFields
      <3>2. \A d \in Call : Good(d)
        BY <1>6, <3>1
      <3>. QED
        BY <1>4, <3>1, <3>2
    <2>. QED
      BY <2>1, <2>2
  <1>15. ASSUME Open PROVE Goal
    <2>1. at' = "page" /\ UNCHANGED <<owner, held, token, stored>> /\ held # 0 /\ Mounted(Superseded, token)
      BY <1>2, <1>15 DEF Open, session, data
    <2>2. IsCalls(Superseded, Len(owner))
      BY <1>1, CallsSuperseded
    <2>3. \A d \in Call : call'[d] = Superseded[d] \/ call'[d] = RequestWith("load", None, None, token)
      BY <1>1, <2>1, <2>2, MountedData
    <2>4. \A d \in Call : Good(d)
      BY <1>4, <1>7, <1>9, <2>1, <2>3
    <2>. QED
      BY <1>4, <2>1, <2>4
  <1>16. ASSUME Leave PROVE Goal
    <2>1. at' = "home" /\ UNCHANGED <<owner, held, token, stored>> /\ (call' = call \/ call' = NoCalls)
      BY <1>16 DEF Leave, session
    <2>2. \A d \in Call : Good(d)
      BY <1>6, <2>1 DEF NoCalls
    <2>. QED
      BY <1>4, <2>1, <2>2
  <1>17. ASSUME BrowserReload PROVE Goal
    <2>1. UNCHANGED <<at, owner, held, stored>> /\ token' = Restored
      BY <1>17 DEF BrowserReload
    <2>2. held # 0 => token' = held
      BY <2>1 DEF Restored
    <2>3. \A d \in Call : call'[d] = None \/ (call'[d] = RequestWith("load", None, None, Restored) /\ held # 0)
      <3>1. CASE at = "page"
        <4>1. Mounted(NoCalls, Restored) /\ Restored \in 0..Len(owner) /\ IsCalls(NoCalls, Len(owner))
          BY <1>1, <1>17, <3>1, CallsMarked DEF BrowserReload, Restored
        <4>. QED
          BY <1>4, <3>1, <4>1, MountedData DEF NoCalls
      <3>2. CASE at # "page"
        BY <1>17, <3>2 DEF BrowserReload, NoCalls
      <3>. QED
        BY <3>1, <3>2
    <2>4. ASSUME NEW d \in Call PROVE Good(d)
      BY <1>7, <2>1, <2>2, <2>3
    <2>. QED
      BY <1>4, <2>1, <2>2, <2>4
  <1>18. ASSUME NEW u \in User, Login(u) PROVE Goal
    <2>1. /\ token' = held' /\ held' \in Nat \ {0}
          /\ \A d \in Call : call'[d] = CrossAll(call)[d] \/ call'[d] = RequestWith("load", None, None, token')
      BY <1>1, <1>18, LoginFields
    <2>2. \A d \in Call : CrossAll(call)[d] # None => CrossAll(call)[d].crossed
      BY <1>1, CrossAllFields
    <2>3. ASSUME NEW d \in Call PROVE Good(d)
      BY <1>7, <2>1, <2>2
    <2>. QED
      BY <2>1, <2>3
  <1>19. ASSUME NEW cleared \in BOOLEAN, SignOut(cleared) PROVE Goal
    BY <1>1, <1>13, <1>19 DEF SignOut
  <1>20. ASSUME NEW c \in Call, LoadAnswered(c) PROVE Goal
    <2>1. UNCHANGED <<at, owner, held, token, stored>> /\ call' = [Cross(call) EXCEPT ![c] = None]
      BY <1>20 DEF LoadAnswered, session
    <2>2. \A d \in Call : call'[d] \in {None, Cross(call)[d]}
      BY <2>1 DEF Cross
    <2>3. \A d \in Call : Good(d)
      BY <1>8, <2>1, <2>2
    <2>. QED
      BY <1>4, <2>1, <2>3
  <1>21. ASSUME NEW c \in Call, ActAnswered(c) PROVE Goal
    <2>1. UNCHANGED <<at, owner, held, token, stored>>
      BY <1>21, ActAnsweredFields
    <2>2. \A d \in Call \ {c} : Good(d)
      BY <1>5, <1>21, <2>1, ActAnsweredFields
    <2>3. call'[c] = None \/ (call'[c] = RequestWith("load", None, None, token) /\ at = "page")
      BY <1>21, ActAnsweredFields
    <2>4. Good(c)
      BY <1>4, <1>7, <2>1, <2>3
    <2>. QED
      BY <1>4, <2>1, <2>2, <2>4
  <1>22. ASSUME NEW c \in Call, ActFails(c) PROVE Goal
    <2>1. UNCHANGED <<at, owner, held, token, stored>> /\ call' = [call EXCEPT ![c] = None]
      BY <1>22 DEF ActFails, Ends, session
    <2>2. \A d \in Call : call'[d] \in {None, call[d]}
      BY <1>1, <2>1 DEF IsCalls
    <2>3. \A d \in Call : Good(d)
      BY <1>6, <2>1, <2>2
    <2>. QED
      BY <1>4, <2>1, <2>3
  <1>23. ASSUME Refetch PROVE Goal
    <2>1. UNCHANGED <<at, owner, held, token, stored>> /\ held # 0 /\ With(Request("load", None, None), Superseded)
      BY <1>23 DEF Refetch, Reading, session, data
    <2>2. IsCalls(Superseded, Len(owner)) /\ None \in ArgOf("load")
      BY <1>1, CallsSuperseded DEF ArgOf
    <2>3. \A d \in Call : call'[d] = Superseded[d] \/ call'[d] = RequestWith("load", None, None, token)
      BY <2>1, <2>2, AskedData
    <2>4. \A d \in Call : Good(d)
      BY <1>4, <1>7, <1>9, <2>1, <2>3
    <2>. QED
      BY <1>4, <2>1, <2>4
  <1>24. ASSUME NEW v \in Value, NEW how \in {"reread", "before", "after"}, Act(v, how) PROVE Goal
    <2>1. /\ UNCHANGED <<at, owner, held, token, stored>> /\ at = "page" /\ how \in page.acts
          /\ With(Request("act", v, how), call)
      BY <1>24 DEF Act, Send, session
    <2>2. v \in ArgOf("act")
      BY DEF ArgOf
    <2>3. \A d \in Call : call'[d] = call[d] \/ call'[d] = RequestWith("act", v, how, token)
      BY <1>1, <2>1, <2>2, AskedData
    <2>4. \A d \in Call : Good(d)
      BY <1>4, <1>6, <1>7, <2>1, <2>3
    <2>. QED
      BY <1>4, <2>1, <2>4
  <1>25. ASSUME NEW u \in User, NEW v \in Value, OthersWrite(u, v) PROVE Goal
    <2>1. UNCHANGED <<at, owner, held, token>> /\ call' = Cross(call)
      BY <1>25 DEF OthersWrite, session
    <2>2. \A d \in Call : Good(d)
      BY <1>10, <2>1
    <2>. QED
      BY <1>4, <2>1, <2>2
  <1>26. ASSUME UNCHANGED <<at, owner, held, token, stored, call>> PROVE Goal
    <2>1. \A d \in Call : Good(d)
      BY <1>6, <1>26
    <2>. QED
      BY <1>4, <1>26, <2>1
  <1>. HIDE DEF Goal
  <1>27. Goal
    BY <1>11, <1>12, <1>14, <1>15, <1>16, <1>17, <1>18, <1>19, <1>20, <1>21, <1>22, <1>23, <1>24, <1>25, <1>26,
       DataSteps
  <1>. QED
    BY <1>27 DEF Goal


------------------------------------------------------------------------------
(* The notices: read once, and shown as read before they are.              *)

\* Notices are read once, as the page opens, and changed one at a time after that: the value shown
\* while a change is under way is the one that was asked for.
LEMMA NoticeStep ==
  ASSUME TypeOK, AwayInv, TokenInv, NoticeInv, ShownInv, IsData, [Next]_vars
  PROVE  NoticeInv'
  <1>1. /\ page \in Pages /\ page' = page /\ Len(owner) \in Nat /\ IsCalls(call, Len(owner)) /\ DOMAIN call = Call
        /\ at \in {"home", "page"} /\ held \in 0..Len(owner) /\ token \in 0..Len(owner)
        /\ shown \in Account \cup {None}
    BY CallsStep DEF TypeOK, IsCalls
  <1>2. CASE Lasting
    <2>1. page.again # "never" /\ "before" \notin page.acts
      BY <1>1, <1>2, PageFacts DEF Lasting
    <2>2. ASSUME NEW c \in Call, call'[c] # None, call'[c].op = "act" PROVE call'[c].how # "before"
      <3>1. IsCalls(call', Len(owner')) /\ Len(owner') \in Nat
        BY CallsStep, SessionTypes
      <3>2. IsRequest(call'[c], Len(owner'))
        BY <2>2, <3>1 DEF IsCalls
      <3>. QED
        BY <1>1, <2>1, <2>2, <3>1, <3>2, RequestFacts
    <2>. QED
      BY <1>1, <1>2, <2>1, <2>2 DEF NoticeInv, UnderWay, Lasting, IsData
  <1>3. CASE ~Lasting
    <2>1. /\ page.gated /\ page.opens /\ ~page.cache /\ ~InStore
          /\ "reread" \in page.acts => page.again # "never"
          /\ page.acts # {} => page.again = "never"
      BY <1>1, <1>3, PageFacts DEF IsData, InStore, Lasting
    <2>. DEFINE Never == page.again = "never"
                Loads == Never => \A c, d \in Call : call'[c] # None /\ call'[c].op = "load" /\ call'[d] # None
                                                     => c = d /\ shown' = None
                IsAct(q) == q # None /\ q.op = "act"
                Acts == \A c, d \in Call : IsAct(call'[c]) /\ IsAct(call'[d]) => c = d
                Befores == \A c \in Call :
                              IsAct(call'[c]) /\ call'[c].how = "before" /\ call'[c].state = "out" =>
                                 /\ ~call'[c].crossed
                                 /\ ~excused' => shown' = [user |-> owner'[held'], value |-> call'[c].arg]
                Goal == Loads /\ Acts /\ Befores
    <2>2. SUFFICES Goal
      <3>1. /\ IsData' <=> IsData
            /\ Lasting' <=> Lasting
            /\ page'.again = "never" <=> Never
        BY <1>1 DEF IsData, Lasting
      <3>. QED
        BY <3>1 DEF NoticeInv, UnderWay
    <2>. HIDE DEF Never
    \* What was known.
    <2>3. /\ Never => \A c, d \in Call : call[c] # None /\ call[c].op = "load" /\ call[d] # None
                                         => c = d /\ shown = None
          /\ \A c, d \in Call : call[c] # None /\ call[c].op = "act" /\ call[d] # None /\ call[d].op = "act" => c = d
          /\ \A c \in Call :
                call[c] # None /\ call[c].op = "act" /\ call[c].how = "before" /\ call[c].state = "out" =>
                    /\ ~call[c].crossed
                    /\ ~excused => shown = [user |-> owner[held], value |-> call[c].arg]
      BY <1>3 DEF NoticeInv, UnderWay, Never
    \* A change on a page that keeps its data is one of the notices.
    <2>4. ASSUME NEW c \in Call, call[c] # None, call[c].op = "act" PROVE Never
      BY <1>1, <2>1, <2>4, RequestFacts DEF IsCalls, Never
    \* No request that was not there, and nothing else is shown.
    <2>5. ASSUME UNCHANGED <<shown, excused, owner, held>>,
                 \A c \in Call : call'[c] # None =>
                    /\ call[c] # None /\ Same(call'[c], call[c])
                    /\ call'[c].state = "out" => call[c].state = "out" /\ call'[c].crossed = call[c].crossed
          PROVE  Goal
      <3>1. Loads
        BY <2>3, <2>5 DEF Same
      <3>2. Acts
        BY <2>3, <2>5 DEF Same
      <3>3. Befores
        BY <2>3, <2>5 DEF Same
      <3>. QED
        BY <3>1, <3>2, <3>3
    <2>6. ASSUME call' = NoCalls PROVE Goal
      BY <2>6 DEF NoCalls
    <2>7. at = "home" => call = NoCalls /\ shown = None
      BY <1>3 DEF AwayInv
    <2>8. ASSUME NEW d \in Call, call'[d] # None, call'[d].op = "load", shown' = None,
                 \A e \in Call \ {d} : call'[e] = None
          PROVE  Goal
      BY <2>8
    \* The answer of the only request.
    <2>9. ASSUME NEW c \in Call, call[c] # None, Never, \A d \in Call : call'[d] # None => d # c /\ call[d] # None,
                 call[c].op = "load"
          PROVE  Goal
      <3>1. \A d \in Call : call'[d] = None
        BY <2>3, <2>9
      <3>. QED
        BY <3>1
    <2>10. ASSUME NEW c \in Call, Serve(c) PROVE Goal
      <3>1. UNCHANGED <<shown, excused, owner, held>>
        BY <2>10 DEF Serve, session
      <3>2. ASSUME NEW d \in Call \ {c}, call'[d] # None
            PROVE  /\ call[d] # None /\ Same(call'[d], call[d])
                   /\ call'[d].state = "out" => call[d].state = "out" /\ call'[d].crossed = call[d].crossed
        <4>1. call'[d] = call[d] \/ call'[d] = Cross(call)[d]
          BY <2>10, ServeFields
        <4>2. CASE call'[d] = call[d]
          BY <3>2, <4>2 DEF Same
        <4>3. CASE call'[d] = Cross(call)[d]
          <5>1. call[d] # None /\ Same(call'[d], call[d]) /\ call'[d].state = call[d].state
                /\ (call'[d].crossed <=> (call[d].crossed \/ call[d].state = "back"))
            BY <1>1, <3>2, <4>3, CrossFields
          <5>2. call[d].state # "back" => Cross(call)[d] = call[d]
            BY DEF Cross
          <5>. QED
            BY <4>3, <5>1, <5>2
        <4>. QED
          BY <4>1, <4>2, <4>3
      <3>3. call'[c] # None => call[c] # None /\ Same(call'[c], call[c]) /\ call'[c].state # "out"
        BY <2>10, ServeFields
      <3>. HIDE DEF Goal
      <3>. QED
        BY <2>5, <3>1, <3>2, <3>3
    <2>11. ASSUME NEW c \in Call, Lost(c) PROVE Goal
      <3>1. UNCHANGED <<shown, excused, owner, held>>
        BY <2>11 DEF Lost, session, data
      <3>2. \A d \in Call \ {c} : call'[d] = call[d]
        BY <2>11, LostFields
      <3>3. call'[c] # None => call[c] # None /\ Same(call'[c], call[c]) /\ call'[c].state # "out"
        BY <2>11, LostFields
      <3>. HIDE DEF Goal
      <3>. QED
        BY <2>5, <3>1, <3>2, <3>3 DEF Same
    <2>12. ASSUME NEW c \in Call, Unauthorized(c) PROVE Goal
      <3>1. call[c] # None
        BY <2>12, UnauthorizedFields
      <3>2. at # "home"
        BY <2>7, <3>1 DEF NoCalls
      <3>3. call' = NoCalls
        BY <1>3, <2>12, <3>2, UnauthorizedFields, SignedOutFields
      <3>. QED
        BY <2>6, <3>3
    <2>13. ASSUME Open PROVE Goal
      <3>1. call = NoCalls /\ shown' = None /\ Mounted(Superseded, token)
        BY <2>7, <2>13 DEF Open, data
      <3>2. IsCalls(Superseded, Len(owner)) /\ \A d \in Call : Superseded[d] = None
        BY <1>1, <3>1, CallsSuperseded, NoCallsKept DEF Free
      <3>3. PICK d \in Free : /\ call'[d] = RequestWith("load", None, None, token) /\ call'[d] # None
                              /\ \A e \in Call \ {d} : call'[e] = Superseded[e]
        BY <1>1, <2>1, <3>1, <3>2, MountedData
      <3>4. d \in Call /\ call'[d].op = "load"
        BY <3>3 DEF RequestWith, Free
      <3>. HIDE DEF Goal
      <3>. QED
        BY <2>8, <3>1, <3>2, <3>3, <3>4
    <2>14. ASSUME Leave \/ (\E cleared \in BOOLEAN : SignOut(cleared)) PROVE Goal
      BY <1>1, <1>3, <2>6, <2>14, SignedOutFields DEF Leave, SignOut
    <2>15. ASSUME BrowserReload PROVE Goal
      <3>1. CASE at = "page"
        <4>1. /\ Mounted(NoCalls, Restored) /\ Restored \in 0..Len(owner) /\ IsCalls(NoCalls, Len(owner))
              /\ shown' = None
          BY <1>1, <2>1, <2>15, <3>1, CallsMarked DEF BrowserReload, Restored
        <4>2. PICK d \in Free : /\ call'[d] = RequestWith("load", None, None, Restored) /\ call'[d] # None
                                /\ \A e \in Call \ {d} : call'[e] = NoCalls[e]
          BY <2>1, <4>1, MountedData
        <4>3. d \in Call /\ call'[d].op = "load" /\ \A e \in Call \ {d} : call'[e] = None
          BY <4>2 DEF RequestWith, Free, NoCalls
        <4>. HIDE DEF Goal
        <4>. QED
          BY <2>8, <4>1, <4>2, <4>3
      <3>2. CASE at # "page"
        BY <2>6, <2>15, <3>2 DEF BrowserReload
      <3>. QED
        BY <3>1, <3>2
    <2>16. ASSUME NEW u \in User, Login(u) PROVE Goal
      <3>1. at = "home" /\ call' = CrossAll(call)
        BY <1>1, <2>1, <2>16, LoginFields DEF Login
      <3>. QED
        BY <2>6, <2>7, <3>1, NoCallsKept
    <2>17. ASSUME NEW c \in Call, LoadAnswered(c) PROVE Goal
      <3>1. call[c] # None /\ call[c].op = "load" /\ call' = [Cross(call) EXCEPT ![c] = None]
        BY <2>17 DEF LoadAnswered, Back
      <3>2. ASSUME NEW d \in Call, call'[d] # None
            PROVE  d # c /\ call[d] # None /\ call'[d].op = call[d].op
        <4>1. d # c /\ call'[d] = Cross(call)[d]
          BY <3>1, <3>2 DEF Cross
        <4>. QED
          BY <1>1, <3>2, <4>1, CrossFields DEF Same
      <3>3. CASE Never
        BY <2>9, <3>1, <3>2, <3>3
      <3>4. CASE ~Never
        \* Nothing is changed on the page.
        <4>1. \A d \in Call : call'[d] # None => call'[d].op # "act"
          BY <2>4, <3>2, <3>4
        <4>. QED
          BY <3>4, <4>1
      <3>. QED
        BY <3>3, <3>4
    <2>18. ASSUME NEW c \in Call, ActAnswered(c) \/ ActFails(c) PROVE Goal
      <3>1. call[c] # None /\ call[c].op = "act"
        BY <2>18 DEF ActAnswered, ActFails, Back
      <3>2. Never
        BY <2>4, <3>1
      <3>3. call[c].how # "reread"
        <4>1. call[c].how \in page.acts
          BY <1>1, <3>1, RequestFacts DEF IsCalls
        <4>. QED
          BY <2>1, <3>2, <4>1 DEF Never
      <3>4. call'[c] = None /\ \A d \in Call \ {c} : call'[d] = call[d]
        <4>1. CASE ActAnswered(c)
          BY <3>3, <4>1, ActAnsweredFields
        <4>2. CASE ActFails(c)
          BY <1>1, <4>2 DEF ActFails, Ends
        <4>. QED
          BY <2>18, <4>1, <4>2
      <3>5. \A d \in Call : call'[d] = None
        <4>. SUFFICES ASSUME NEW d \in Call, call'[d] # None PROVE FALSE
          OBVIOUS
        <4>1. d # c /\ call[d] # None
          BY <3>4
        <4>2. call[d].op \in {"load", "act"}
          BY <1>1, <4>1, RequestFacts DEF IsCalls, OpsOf, IsData
        <4>. QED
          BY <2>3, <3>1, <3>2, <4>1, <4>2
      <3>. QED
        BY <3>5
    <2>19. ASSUME Refetch PROVE Goal
      <3>1. at = page.again /\ held # 0 /\ With(Request("load", None, None), Superseded)
        BY <2>19 DEF Refetch, Reading
      <3>2. ~Never
        BY <1>1, <3>1 DEF Never
      <3>3. ASSUME NEW d \in Call, call'[d] # None PROVE call'[d].op # "act"
        <4>1. IsCalls(call', Len(owner')) /\ Len(owner') \in Nat
          BY CallsStep, SessionTypes
        <4>2. IsRequest(call'[d], Len(owner'))
          BY <3>3, <4>1 DEF IsCalls
        <4>3. call'[d].op = "act" => call'[d].how \in page.acts
          BY <1>1, <4>1, <4>2, RequestFacts
        <4>. QED
          BY <2>1, <3>2, <4>3 DEF Never
      <3>. QED
        BY <3>2, <3>3
    <2>20. ASSUME NEW v \in Value, NEW how \in {"reread", "before", "after"}, Act(v, how) PROVE Goal
      <3>1. /\ UNCHANGED <<owner, held, excused, stored>> /\ at = "page" /\ how \in page.acts /\ shown # None
            /\ UnderWay("act") = {} /\ With(Request("act", v, how), call)
            /\ shown' = IF how = "before" THEN [shown EXCEPT !.value = v] ELSE shown
        BY <1>3, <2>20 DEF Act, Send, session
      <3>2. Never
        BY <2>1, <3>1 DEF Never
      <3>3. v \in ArgOf("act")
        BY DEF ArgOf
      <3>4. PICK c \in Free : /\ call'[c] = RequestWith("act", v, how, token) /\ call'[c] # None
                              /\ \A d \in Call \ {c} : call'[d] = call[d]
        BY <1>1, <3>1, <3>3, AskedData
      <3>5. /\ c \in Call /\ call'[c].op = "act" /\ call'[c].how = how /\ ~call'[c].crossed
            /\ call'[c].arg = v
        BY <3>4 DEF RequestWith, Free
      <3>6. \A d \in Call : call[d] = None
        <4>. SUFFICES ASSUME NEW d \in Call, call[d] # None PROVE FALSE
          OBVIOUS
        <4>1. call[d].op \in {"load", "act"}
          BY <1>1, RequestFacts DEF IsCalls, OpsOf, IsData
        <4>. QED
          BY <2>3, <3>1, <3>2, <4>1 DEF UnderWay
      <3>7. \A d \in Call \ {c} : call'[d] = None
        BY <3>4, <3>6
      <3>8. ASSUME how = "before", ~excused PROVE shown' = [user |-> owner[held], value |-> v]
        <4>1. shown = [user |-> owner[held], value |-> stored[owner[held]]]
          BY <3>1, <3>6, <3>8 DEF ShownInv
        <4>2. shown' = [shown EXCEPT !.value = v]
          BY <3>1, <3>8
        <4>. QED
          BY <4>1, <4>2
      <3>9. Loads
        BY <3>5, <3>7
      <3>10. Acts
        BY <3>7
      <3>11. Befores
        BY <3>1, <3>5, <3>7, <3>8
      <3>. QED
        BY <3>9, <3>10, <3>11
    <2>21. ASSUME NEW u \in User, NEW v \in Value, OthersWrite(u, v) PROVE Goal
      <3>1. UNCHANGED <<shown, owner, held>> /\ excused' = TRUE /\ call' = Cross(call)
        BY <2>21 DEF OthersWrite, session
      <3>2. ASSUME NEW d \in Call, call'[d] # None
            PROVE  /\ call[d] # None /\ call'[d].op = call[d].op /\ call'[d].how = call[d].how
                   /\ call'[d].state = "out" => call'[d] = call[d]
        <4>1. /\ call[d] # None /\ Same(call'[d], call[d]) /\ call'[d].state = call[d].state
          BY <1>1, <3>1, <3>2, CrossFields
        <4>2. call[d].state # "back" => Cross(call)[d] = call[d]
          BY DEF Cross
        <4>. QED
          BY <3>1, <4>1, <4>2 DEF Same
      <3>3. Loads
        BY <2>3, <3>1, <3>2
      <3>4. Acts
        BY <2>3, <3>1, <3>2
      <3>5. Befores
        BY <2>3, <3>1, <3>2
      <3>. QED
        BY <3>3, <3>4, <3>5
    <2>22. ASSUME UNCHANGED <<owner, held, shown, excused, call>> PROVE Goal
      BY <2>5, <2>22 DEF Same
    <2>. HIDE DEF Goal
    <2>. QED
      BY <2>2, <2>10, <2>11, <2>12, <2>13, <2>14, <2>15, <2>16, <2>17, <2>18, <2>19, <2>20, <2>21, <2>22, DataSteps
         DEF Goal
  <1>. QED
    BY <1>2, <1>3


------------------------------------------------------------------------------
(* What is shown.                                                          *)

\* What mends the page as long as it is under way stays under way, or ends in what it mends.
LEMMA ShownStep ==
  ASSUME TypeOK, AwayInv, TokenInv, AnswerInv, NoticeInv, ShownInv, IsData, [Next]_vars
  PROVE  ShownInv'
  <1>1. /\ page \in Pages /\ page' = page /\ Len(owner) \in Nat /\ IsCalls(call, Len(owner)) /\ DOMAIN call = Call
        /\ at \in {"home", "page"} /\ held \in 0..Len(owner) /\ token \in 0..Len(owner)
        /\ shown \in Account \cup {None} /\ excused \in BOOLEAN /\ owner \in Seq(User)
        /\ stored \in [User -> Value]
    BY CallsStep DEF TypeOK, IsCalls
  <1>2. /\ page.gated /\ (InStore => Lasting /\ page.acts = {"after"} /\ ~page.opens)
        /\ (~InStore => page.opens)
        /\ page.acts \subseteq {"reread", "before", "after"}
    BY <1>1, PageFacts DEF IsData, InStore, Lasting
  <1>. DEFINE Fresh == shown = [user |-> owner[held], value |-> stored[owner[held]]]
              Fresh2 == shown' = [user |-> owner'[held'], value |-> stored'[owner'[held']]]
              Gone == InStore /\ held' = 0 => shown' = None \/ excused'
              Right == (at' = "page" \/ InStore) /\ shown' # None /\ ~excused' =>
                          Fresh2 \/ \E c \in Call : call'[c] # None /\ Mends(call'[c])
              Goal == Gone /\ Right
  <1>3. SUFFICES Goal
    <2>1. /\ IsData' <=> IsData
          /\ InStore' <=> InStore
          /\ \A q : Mends(q)' <=> Mends(q)
      BY <1>1 DEF IsData, InStore, Mends
    <2>. QED
      BY <2>1 DEF ShownInv, Mends
  <1>4. /\ InStore /\ held = 0 => shown = None \/ excused
        /\ (at = "page" \/ InStore) /\ shown # None /\ ~excused =>
              Fresh \/ \E c \in Call : call[c] # None /\ Mends(call[c])
        /\ at = "page" => held # 0
        /\ (at = "page" \/ InStore) /\ shown # None /\ ~excused => held # 0
    BY <1>2 DEF ShownInv, TokenInv
  \* A page left is not looked at, unless it is the profile.
  <1>5. ASSUME at' = "home", ~InStore PROVE Goal
    BY <1>5
  <1>6. ASSUME shown' = None \/ excused' PROVE Goal
    BY <1>6
  \* Some request mends what is shown.
  <1>7. ASSUME NEW c \in Call, call'[c] # None, Mends(call'[c]), Gone PROVE Goal
    BY <1>7
  \* What was shown still is, and so is what mends it.
  <1>8. ASSUME UNCHANGED <<owner, held, shown, excused, stored>>, at' = "page" => at = "page",
               \A c \in Call : call[c] # None /\ Mends(call[c]) =>
                  \E d \in Call : call'[d] # None /\ Mends(call'[d])
        PROVE  Goal
    BY <1>4, <1>8
  \* An answer that counts is what the server keeps of the one who is signed in.
  <1>9. ASSUME NEW c \in Call, call[c] # None, ~call[c].crossed, call[c].answer # None
        PROVE  /\ held # 0 /\ call[c].tok = held
               /\ call[c].answer = [user |-> owner[held], value |-> stored[owner[held]]]
    BY <1>9 DEF TokenInv, AnswerInv
  <1>10. ASSUME NEW c \in Call, Serve(c) PROVE Goal
    <2>. DEFINE q == call[c]
                r == call'[c]
    <2>1. UNCHANGED <<at, owner, held, token, shown, excused>>
      BY <1>10 DEF Serve, session
    <2>2. q # None /\ q.state = "out" /\ IsRequest(q, Len(owner))
      BY <1>1, <1>10 DEF Serve, IsCalls
    <2>3. CASE q.op = "act" /\ r # None /\ r.answer # None
      <3>1. /\ Same(r, q) /\ r.state = "back" /\ r.answer \in Answers(q)
            /\ ~(q.op \in Guarded /\ q.tok \in dead \cup {0})
            /\ stored' = [stored EXCEPT ![r.answer.user] = r.answer.value]
        BY <1>10, <2>3, ServeFields
      <3>2. CASE q.how # "before"
        <4>1. Mends(r)
          BY <2>3, <3>1, <3>2 DEF Mends, Same
        <4>. QED
          BY <1>4, <1>7, <2>1, <2>3, <4>1
      <3>3. CASE q.how = "before"
        <4>1. ~q.crossed /\ (~excused => shown = [user |-> owner[held], value |-> q.arg])
          BY <2>2, <2>3, <3>3 DEF NoticeInv, UnderWay
        <4>2. q.tok = held /\ owner[q.tok] \in User
          BY <2>2, <2>3, <3>1, <4>1, TokenIssued DEF TokenInv, Guarded
        <4>3. r.answer = [user |-> owner[q.tok], value |-> q.arg]
          BY <2>2, <2>3, <3>1, AnswerType
        <4>4. stored'[owner[held]] = q.arg
          BY <1>1, <3>1, <4>2, <4>3
        <4>5. ~excused => Fresh2
          BY <2>1, <4>1, <4>4
        <4>. QED
          BY <1>4, <2>1, <4>5
      <3>. QED
        BY <3>2, <3>3
    <2>4. CASE ~(q.op = "act" /\ r # None /\ r.answer # None)
      <3>1. stored' = stored /\ \A d \in Call \ {c} : call'[d] = call[d]
        BY <1>10, <2>4, ServeFields
      <3>2. ASSUME Mends(q) PROVE r # None /\ Mends(r)
        <4>1. (q.op = "load" /\ ~q.late /\ page.opens) \/ (q.op = "act" /\ q.how = "before")
          BY <2>2, <3>2 DEF Mends
        <4>2. r # None /\ Same(r, q) /\ r.late = q.late
          <5>1. q.op = "act" => ~q.late
            BY <1>1, <2>2, RequestFacts
          <5>. QED
            BY <1>10, <4>1, <5>1, ServeFields
        <4>3. CASE q.op = "load"
          BY <4>1, <4>2, <4>3 DEF Mends, Same
        <4>4. CASE q.op = "act"
          BY <2>4, <4>1, <4>2, <4>4 DEF Mends, Same
        <4>. QED
          BY <4>1, <4>3, <4>4
      <3>3. \A d \in Call : call[d] # None /\ Mends(call[d]) => call'[d] # None /\ Mends(call'[d])
        BY <3>1, <3>2
      <3>. HIDE DEF Goal
      <3>. QED
        BY <1>8, <2>1, <3>1, <3>3
    <2>. QED
      BY <2>3, <2>4
  <1>11. ASSUME NEW c \in Call, Lost(c) PROVE Goal
    <2>. DEFINE q == call[c]
                r == call'[c]
    <2>1. UNCHANGED <<at, owner, held, token, shown, excused, stored>>
      BY <1>11 DEF Lost, session, data
    <2>2. /\ q # None /\ IsRequest(q, Len(owner)) /\ (q.state = "back" => q.answer # None)
          /\ \A d \in Call \ {c} : call'[d] = call[d]
      BY <1>1, <1>11, LostFields DEF Lost, IsCalls
    <2>3. ASSUME Mends(q) PROVE r # None /\ Mends(r)
      <3>1. q.op \in {"load", "act"} /\ ~q.late
        BY <1>1, <2>2, <2>3, RequestFacts DEF Mends
      <3>2. /\ r # None /\ Same(r, q) /\ r.state = "back" /\ r.answer = None
            /\ r.late = q.late /\ r.crossed
        BY <1>11, <3>1, LostFields
      <3>3. q.op = "load" => page.opens
        BY <2>3 DEF Mends
      <3>. QED
        BY <3>1, <3>2, <3>3 DEF Mends, Same
    <2>4. \A d \in Call : call[d] # None /\ Mends(call[d]) => call'[d] # None /\ Mends(call'[d])
      BY <2>2, <2>3
    <2>. HIDE DEF Goal
    <2>. QED
      BY <1>8, <2>1, <2>4
  <1>12. ASSUME NEW calls, IsCalls(calls, Len(owner)), SignedOut(calls) PROVE Goal
    <2>1. at' = "home" /\ (InStore => shown' = None)
      BY <1>12, SignedOutFields
    <2>. HIDE DEF Goal
    <2>. QED
      BY <1>5, <1>6, <2>1
  <1>13. ASSUME NEW c \in Call, Unauthorized(c) PROVE Goal
    <2>. HIDE DEF Goal
    <2>. QED
      BY <1>6, <1>12, <1>13, UnauthorizedFields
  <1>14. ASSUME Open PROVE Goal
    <2>1. /\ UNCHANGED <<owner, held, shown, excused, stored>> /\ held # 0 /\ Mounted(Superseded, token)
      BY <1>2, <1>14 DEF Open, session, data
    <2>2. IsCalls(Superseded, Len(owner))
      BY <1>1, CallsSuperseded
    <2>3. CASE ~InStore
      <3>1. PICK d \in Free : call'[d] = RequestWith("load", None, None, token) /\ call'[d] # None
        BY <1>1, <2>1, <2>2, <2>3, MountedData
      <3>2. d \in Call /\ Mends(call'[d])
        BY <1>2, <2>3, <3>1 DEF Mends, RequestWith, Free
      <3>3. Gone
        BY <2>1
      <3>. HIDE DEF Goal, Gone
      <3>. QED
        BY <1>7, <3>1, <3>2, <3>3
    <2>4. CASE InStore
      <3>1. call' = Superseded
        BY <1>1, <2>1, <2>2, <2>4, MountedData
      <3>2. \A d \in Call : call[d] # None /\ Mends(call[d]) => call'[d] = call[d]
        BY <1>1, <1>2, <2>4, <3>1, SupersededFields DEF Mends
      <3>. QED
        BY <1>4, <2>1, <2>4, <3>2
    <2>. QED
      BY <2>3, <2>4
  <1>15. ASSUME Leave PROVE Goal
    <2>1. at' = "home" /\ (InStore => UNCHANGED <<owner, held, shown, excused, stored, call>>)
      BY <1>2, <1>15 DEF Leave, session
    <2>. QED
      BY <1>4, <2>1
  <1>16. ASSUME BrowserReload PROVE Goal
    <2>1. /\ UNCHANGED <<owner, held, stored>> /\ shown' = IF InStore THEN shown ELSE None
          /\ excused' = (InStore /\ (excused \/ UnderWay("act") # {}))
      BY <1>16 DEF BrowserReload
    <2>2. CASE ~InStore
      BY <2>1, <2>2
    <2>3. CASE InStore
      <3>1. Gone
        BY <1>4, <2>1, <2>3
      <3>2. ASSUME ~excused', shown' # None PROVE Fresh2
        <4>1. ~excused /\ UnderWay("act") = {}
          BY <2>1, <2>3, <3>2
        <4>2. \A c \in Call : call[c] # None => ~Mends(call[c])
          BY <1>2, <2>3, <4>1 DEF Mends, UnderWay
        <4>3. Fresh
          BY <1>4, <2>1, <2>3, <3>2, <4>1, <4>2
        <4>. QED
          BY <2>1, <2>3, <4>3
      <3>. QED
        BY <3>1, <3>2
    <2>. QED
      BY <2>2, <2>3
  <1>17. ASSUME NEW u \in User, Login(u) PROVE Goal
    <2>1. /\ at = "home" /\ at' = at /\ held = 0 /\ UNCHANGED <<shown, excused>>
      BY <1>1, <1>2, <1>17 DEF Login, data
    <2>2. InStore => shown' = None \/ excused'
      BY <1>4, <2>1
    <2>. HIDE DEF Goal
    <2>. QED
      BY <1>5, <1>6, <2>1, <2>2
  <1>18. ASSUME NEW cleared \in BOOLEAN, SignOut(cleared) PROVE Goal
    BY <1>1, <1>12, <1>18 DEF SignOut
  <1>19. ASSUME NEW c \in Call, LoadAnswered(c) PROVE Goal
    <2>1. /\ UNCHANGED <<owner, held, stored>> /\ call[c] # None
          /\ excused' = (call[c].crossed \/ call[c].answer = None)
          /\ call[c].answer # None => shown' = call[c].answer
      BY <1>19 DEF LoadAnswered, Back, session
    <2>2. CASE call[c].crossed \/ call[c].answer = None
      BY <1>6, <2>1, <2>2
    <2>3. CASE ~(call[c].crossed \/ call[c].answer = None)
      BY <1>9, <2>1, <2>3
    <2>. QED
      BY <2>2, <2>3
  <1>20. ASSUME NEW c \in Call, ActAnswered(c) PROVE Goal
    <2>1. UNCHANGED <<at, owner, held, stored>>
      BY <1>20, ActAnsweredFields
    <2>2. /\ call[c] # None /\ call[c].op = "act" /\ call[c].state = "back" /\ call[c].answer # None
          /\ call[c].how \in page.acts
      BY <1>20, ActAnsweredFields
    <2>3. CASE call[c].how = "reread"
      <3>1. ~InStore /\ page.opens /\ UNCHANGED <<shown, excused>>
        BY <1>2, <1>20, <2>2, <2>3, ActAnsweredFields
      <3>2. CASE at = "page"
        <4>1. call'[c] = RequestWith("load", None, None, token) /\ call'[c] # None
          BY <1>20, <2>3, <3>2, ActAnsweredFields
        <4>2. Mends(call'[c])
          BY <3>1, <4>1 DEF Mends, RequestWith
        <4>. QED
          BY <3>1, <4>1, <4>2
      <3>3. CASE at = "home"
        BY <1>5, <2>1, <3>1, <3>3
      <3>. QED
        BY <1>1, <3>2, <3>3
    <2>4. CASE call[c].how = "after"
      <3>1. shown' = call[c].answer /\ excused' = (excused \/ call[c].crossed)
        BY <1>20, <2>4, ActAnsweredFields
      <3>2. CASE call[c].crossed
        BY <1>6, <3>1, <3>2
      <3>3. CASE ~call[c].crossed
        BY <1>9, <2>1, <2>2, <3>1, <3>3
      <3>. QED
        BY <3>2, <3>3
    <2>5. CASE call[c].how = "before"
      <3>1. UNCHANGED <<shown, excused>> /\ \A d \in Call \ {c} : call'[d] = call[d]
        BY <1>20, <2>5, ActAnsweredFields
      <3>2. ~Mends(call[c])
        BY <2>2, <2>5 DEF Mends
      <3>. HIDE DEF Goal
      <3>. QED
        BY <1>8, <2>1, <3>1, <3>2
    <2>. QED
      BY <1>2, <2>2, <2>3, <2>4, <2>5
  <1>21. ASSUME NEW c \in Call, ActFails(c) PROVE Goal
    <2>1. /\ UNCHANGED <<at, owner, held, stored, shown>> /\ \A d \in Call \ {c} : call'[d] = call[d]
          /\ excused' = (excused \/ call[c].crossed \/ call[c].how = "before")
          /\ call[c].op = "act" /\ call[c].state = "back" /\ call[c].answer = None
      BY <1>1, <1>21 DEF ActFails, Back, Ends, session
    <2>2. CASE call[c].crossed \/ call[c].how = "before"
      BY <1>6, <2>1, <2>2
    <2>3. CASE ~(call[c].crossed \/ call[c].how = "before")
      <3>1. ~Mends(call[c])
        BY <2>1, <2>3 DEF Mends
      <3>2. excused' = excused
        BY <1>1, <2>1, <2>3
      <3>. HIDE DEF Goal
      <3>. QED
        BY <1>8, <2>1, <3>1, <3>2
    <2>. QED
      BY <2>2, <2>3
  <1>22. ASSUME Refetch PROVE Goal
    <2>1. /\ UNCHANGED <<at, owner, held, shown, excused, stored>> /\ held # 0
          /\ With(Request("load", None, None), Superseded)
      BY <1>22 DEF Refetch, Reading, session, data
    <2>2. IsCalls(Superseded, Len(owner)) /\ None \in ArgOf("load")
      BY <1>1, CallsSuperseded DEF ArgOf
    <2>3. PICK d \in Free : /\ call'[d] = RequestWith("load", None, None, token) /\ call'[d] # None
                            /\ \A e \in Call \ {d} : call'[e] = Superseded[e]
      BY <2>1, <2>2, AskedData
    <2>4. d \in Call /\ call[d] = None
      BY <2>3 DEF Free
    <2>5. CASE ~InStore
      <3>1. Mends(call'[d])
        BY <1>2, <2>3, <2>5 DEF Mends, RequestWith
      <3>2. Gone
        BY <2>1
      <3>. HIDE DEF Goal, Gone
      <3>. QED
        BY <1>7, <2>3, <2>4, <3>1, <3>2
    <2>6. CASE InStore
      <3>1. \A e \in Call : call[e] # None /\ Mends(call[e]) => call'[e] = call[e]
        BY <1>1, <1>2, <2>3, <2>4, <2>6, SupersededFields DEF Mends
      <3>. HIDE DEF Goal
      <3>. QED
        BY <1>8, <2>1, <3>1
    <2>. QED
      BY <2>5, <2>6
  <1>23. ASSUME NEW v \in Value, NEW how \in {"reread", "before", "after"}, Act(v, how) PROVE Goal
    <2>1. /\ UNCHANGED <<at, owner, held, excused, stored>> /\ at = "page" /\ how \in page.acts
          /\ With(Request("act", v, how), call)
          /\ how # "before" => shown' = shown
      BY <1>23 DEF Act, Send, session
    <2>2. v \in ArgOf("act")
      BY DEF ArgOf
    <2>3. PICK d \in Free : /\ call'[d] = RequestWith("act", v, how, token) /\ call'[d] # None
                            /\ \A e \in Call \ {d} : call'[e] = call[e]
      BY <1>1, <2>1, <2>2, AskedData
    <2>4. d \in Call /\ call[d] = None
      BY <2>3 DEF Free
    <2>5. CASE how = "before"
      <3>1. Mends(call'[d])
        BY <2>3, <2>5 DEF Mends, RequestWith
      <3>2. Gone
        BY <1>4, <2>1
      <3>. HIDE DEF Goal, Gone
      <3>. QED
        BY <1>7, <2>3, <2>4, <3>1, <3>2
    <2>6. CASE how # "before"
      <3>. HIDE DEF Goal
      <3>. QED
        BY <1>8, <2>1, <2>3, <2>4, <2>6
    <2>. QED
      BY <2>5, <2>6
  <1>24. ASSUME NEW u \in User, NEW v \in Value, OthersWrite(u, v) PROVE Goal
    <2>. HIDE DEF Goal
    <2>. QED
      BY <1>6, <1>24 DEF OthersWrite
  <1>25. ASSUME UNCHANGED <<at, owner, held, stored, shown, excused, call>> PROVE Goal
    <2>. HIDE DEF Goal
    <2>. QED
      BY <1>8, <1>25
  <1>. HIDE DEF Goal
  <1>. QED
    BY <1>3, <1>10, <1>11, <1>13, <1>14, <1>15, <1>16, <1>17, <1>18, <1>19, <1>20, <1>21, <1>22, <1>23, <1>24,
       <1>25, DataSteps

\* An open page with nothing under way shows what the server keeps of the user who is signed in,
\* unless it is excused, whoever was signed in before, and whichever of the client and the store
\* forgot its token first.
THEOREM ShowsOwnData == Spec => []OwnData
  <1>. DEFINE Inv == /\ TypeOK /\ AwayInv
                     /\ IsData => TokenInv /\ AnswerInv /\ NoticeInv /\ ShownInv
  <1>1. Init => Inv
    <2>. SUFFICES ASSUME Init PROVE Inv
      OBVIOUS
    <2>1. \A c \in Call : call[c] = None
      BY NoCallsKept DEF Init
    <2>2. held = 0 /\ at = "home" /\ shown = None
      BY DEF Init
    <2>3. TokenInv /\ AnswerInv /\ ShownInv
      BY <2>1, <2>2 DEF TokenInv, AnswerInv, ShownInv
    <2>4. NoticeInv
      BY <2>1 DEF NoticeInv, UnderWay
    <2>. QED
      BY <2>3, <2>4, InvInit
  <1>2. Inv /\ [Next]_vars => Inv'
    <2>. SUFFICES ASSUME Inv, [Next]_vars PROVE Inv'
      OBVIOUS
    <2>1. TypeOK' /\ AwayInv' /\ (IsData' <=> IsData)
      BY TypeStep, AwayStep, CallsStep DEF IsData
    <2>2. IsData => TokenInv' /\ AnswerInv' /\ NoticeInv' /\ ShownInv'
      BY TokenStep, NoticeStep, ShownStep
    <2>. QED
      BY <2>1, <2>2
  <1>3. Inv => OwnData
    BY DEF ShownInv, OwnData, NoCalls
  <1>. QED
    BY <1>1, <1>2, <1>3, PTL DEF Spec
=============================================================================
