--------------------------- MODULE Delivery_proofs --------------------------
(***************************************************************************)
(* Theorems about Delivery, for any deaths, names and channels, any        *)
(* notifications, endpoints and accounts, and every bound.                 *)
(***************************************************************************)
EXTENDS Delivery, SequenceTheorems, FiniteSetTheorems, TLAPS

-----------------------------------------------------------------------------
\* Batches.

\* A set of rows, read in some order.
LEMMA RowsInOrder ==
  ASSUME NEW S, IsFiniteSet(S), NEW order \in SetToSeqs(S)
  PROVE  /\ order \in Seq(S) /\ DOMAIN order = 1 .. Len(order)
         /\ \A i \in DOMAIN order : order[i] \in S
         /\ \A i, j \in DOMAIN order : order[i] = order[j] => i = j
<1>1. Cardinality(S) \in Nat
  BY FS_CardinalityType
<1>2. order \in [1 .. Cardinality(S) -> S]
  BY DEF SetToSeqs
<1>3. order \in Seq(S)
  BY <1>1, <1>2, IsASeq
<1>4. \A i, j \in 1 .. Cardinality(S) : i # j => order[i] # order[j]
  BY DEF SetToSeqs
<1> QED
  BY <1>2, <1>3, <1>4, LenProperties

\* Of which the tick takes on the first few.
LEMMA FirstOfRows ==
  ASSUME NEW S, NEW seq \in Seq(S), NEW n \in Nat
  PROVE  /\ FirstOf(seq, n) \in Seq(S) /\ Len(FirstOf(seq, n)) <= n
         /\ \A i \in DOMAIN FirstOf(seq, n) :
              i \in DOMAIN seq /\ FirstOf(seq, n)[i] = seq[i]
<1> DEFINE m == IF Len(seq) < n THEN Len(seq) ELSE n
<1>1. Len(seq) \in Nat /\ DOMAIN seq = 1 .. Len(seq)
  BY LenProperties
<1>2. m \in Nat /\ m <= n /\ m <= Len(seq)
  BY <1>1
<1>3. FirstOf(seq, n) = SubSeq(seq, 1, m)
  BY DEF FirstOf
<1> HIDE DEF m
<1>4. SubSeq(seq, 1, m) = [i \in 1 .. m |-> seq[i]]
  BY <1>2
<1>5. \A i \in 1 .. m : seq[i] \in S
  BY <1>1, <1>2, ElementOfSeq
<1>6. [i \in 1 .. m |-> seq[i]] \in Seq(S)
  BY <1>2, <1>5, IsASeq
<1>7. Len([i \in 1 .. m |-> seq[i]]) = m
  BY <1>2, <1>6, LenProperties
<1> QED
  BY <1>1, <1>2, <1>3, <1>4, <1>6, <1>7

LEMMA RestOfBatch ==
  ASSUME NEW S, NEW seq \in Seq(S), seq # <<>>
  PROVE  /\ Tail(seq) \in Seq(S) /\ Len(Tail(seq)) <= Len(seq)
         /\ 1 \in DOMAIN seq /\ Head(seq) = seq[1] /\ seq[1] \in S
         /\ \A i \in DOMAIN Tail(seq) : /\ i \in Nat \ {0} /\ i + 1 \in DOMAIN seq
                                        /\ Tail(seq)[i] = seq[i + 1]
<1>1. /\ Len(seq) \in Nat /\ DOMAIN seq = 1 .. Len(seq) /\ Len(seq) # 0
      /\ Tail(seq) \in Seq(S) /\ Len(Tail(seq)) = Len(seq) - 1
      /\ \A i \in 1 .. Len(Tail(seq)) : Tail(seq)[i] = seq[i + 1]
  BY LenProperties, HeadTailProperties, EmptySeq
<1>2. DOMAIN Tail(seq) = 1 .. Len(seq) - 1
  BY <1>1, LenProperties
<1>3. 1 \in DOMAIN seq
  BY <1>1
<1> QED
  BY <1>1, <1>2, <1>3, ElementOfSeq

LEMMA AfterHead ==
  ASSUME NEW S, NEW seq \in Seq(S), seq # <<>>,
         \A i, j \in DOMAIN seq : seq[i] = seq[j] => i = j
  PROVE  /\ \A i, j \in DOMAIN Tail(seq) : Tail(seq)[i] = Tail(seq)[j] => i = j
         /\ \A i \in DOMAIN Tail(seq) : Tail(seq)[i] # Head(seq)
<1>1. \A i, j \in DOMAIN Tail(seq) : Tail(seq)[i] = Tail(seq)[j] => i = j
  BY RestOfBatch
<1>2. \A i \in DOMAIN Tail(seq) : Tail(seq)[i] # Head(seq)
  BY RestOfBatch
<1> QED
  BY <1>1, <1>2

-----------------------------------------------------------------------------
\* Obituaries.

\* An attempt at an obituary is at a row under a name its player had, and what is
\* out is out under the slug of its row.  A life has one obituary at most.
OneObituary ==
  /\ \A l \in Lives : names[l] # <<>>
  /\ \A l \in Lives, n \in Names : articles[<<l, n>>].attempts > 0 =>
       n \in ToSet(names[l])
  /\ \A k \in Published : /\ articles[k].attempts > 0
                          /\ articles[k].slug \in Slugs
                          /\ articles[k].slug[1] = k[1] /\ articles[k].slug[2] = k[2]
  /\ \A j, k \in Published : j[1] = k[1] => j = k

\* The lives in the newsdesk's hands are distinct and still want an obituary.
DeskInv ==
  \A i \in DOMAIN desk, l \in Lives : desk[i].life = l =>
    /\ desk[i].name \in ToSet(names[l]) /\ ~Settled(l)
    /\ \A j \in DOMAIN desk : desk[j].life = l => i = j

\* The posts in the crier's hands are distinct and still to be made.  What is
\* recorded as posted is out; what is shown is recorded, but for a lost answer.
CrierInv ==
  /\ \A i \in DOMAIN crier, s \in Slugs, c \in Channels : crier[i] = <<s, c>> =>
       /\ Unposted(s, c)
       /\ \A j \in DOMAIN crier : crier[j] = <<s, c>> => i = j
  /\ \A s \in Slugs, c \in Channels : ledger[<<s, c>>].posted => Out(s)
  /\ \A l \in Lives \ lost, c \in Channels :
       /\ shown[<<l, c>>] <= 1
       /\ shown[<<l, c>>] = 1 =>
            \E s \in Slugs : s[1] = l /\ ledger[<<s, c>>].posted

ObituariesInv == ObituariesTypeOK /\ OneObituary /\ DeskInv /\ CrierInv

-----------------------------------------------------------------------------
\* Notices.

Registered(e) == rows[e].owner # Nobody

SameKey(d, e) == d[1] = e[1] /\ rows[d].id = rows[e].id

\* Ids are told out once per table, and a row that stopped counting has failed as
\* often as it takes.
RowsKept ==
  /\ \A e \in Endpoints : Registered(e) =>
       /\ rows[e].id <= serial[e[1]]
       /\ \A d \in Endpoints : Registered(d) /\ SameKey(d, e) => d = e
       /\ ~rows[e].on => rows[e].failures = MaxFailures
       /\ rows[e].failures <= strikes[e]
  /\ \A e \in wanted \ (dead \cup reaped) : Registered(e)

\* An id that somebody holds on to is its endpoint's, or nobody's.
HeldRow(t) ==
  /\ t.id <= serial[t.end[1]]
  /\ \A e \in Endpoints : SameRow(e, t) => e = t.end

HoldsOn ==
  /\ \A t \in sends : HeldRow(t)
  /\ \A r \in open : HeldRow(r[2]) /\ r[2].end[1] = "device"

\* The batch: distinct rows, none of them stamped yet, known by their age to be old.
TickInv ==
  /\ \A i \in DOMAIN tick :
       /\ tick[i].note \in ToSet(inbox) \ stamped
       /\ tick[i].old => TooOld(tick[i].note)
       /\ \A j \in DOMAIN tick : tick[i].note = tick[j].note => i = j
  /\ reading => tick # <<>>
  /\ ~reading => sends = {} /\ ~delivered
  /\ delivered => Current \in seen
  /\ reading /\ Current \in seen => delivered \/ pushFaults > 0

NoticesInv == NoticesTypeOK /\ RowsKept /\ HoldsOn /\ TickInv /\ StampedForCause

DeliveryInv ==
  /\ enabled \in {"newsroom", "notifier"}
  /\ ObituariesInv /\ NoticesInv

-----------------------------------------------------------------------------
\* The rows of the newsroom.

LEMMA NewsroomRows ==
  ASSUME ObituariesTypeOK
  PROVE  /\ \A l \in Lives, n \in Names :
              /\ <<l, n>> \in Lives \X Names
              /\ articles[<<l, n>>] \in Article
              /\ articles[<<l, n>>].attempts \in Nat
         /\ \A l \in Lives : /\ names[l] \in Seq(Names)
                             /\ ToSet(names[l]) \subseteq Names
         /\ \A s \in Slugs, c \in Channels :
              /\ <<s, c>> \in Slugs \X Channels
              /\ ledger[<<s, c>>] \in Entry
              /\ ledger[<<s, c>>].attempts \in Nat
         /\ \A l \in Lives, c \in Channels : shown[<<l, c>>] \in Nat
<1>1. \A l \in Lives : names[l] \in Seq(Names)
  BY DEF ObituariesTypeOK
<1>2. ASSUME NEW l \in Lives
      PROVE  ToSet(names[l]) \subseteq Names
  BY <1>1, ElementOfSeq, LenProperties DEF ToSet
<1>3. \A l \in Lives, n \in Names :
        articles[<<l, n>>] \in Article /\ articles[<<l, n>>].attempts \in Nat
  BY DEF ObituariesTypeOK, Article
<1>4. \A s \in Slugs, c \in Channels :
        ledger[<<s, c>>] \in Entry /\ ledger[<<s, c>>].attempts \in Nat
  BY DEF ObituariesTypeOK, Entry
<1>5. \A l \in Lives, c \in Channels : shown[<<l, c>>] \in Nat
  BY DEF ObituariesTypeOK
<1> QED
  BY <1>1, <1>2, <1>3, <1>4, <1>5

LEMMA SameArticles ==
  ASSUME OneObituary, UNCHANGED <<articles, names>>
  PROVE  OneObituary'
  BY DEF OneObituary, Published, ToSet

LEMMA SameSettled ==
  ASSUME UNCHANGED <<articles, names>>
  PROVE  \A l \in Lives : /\ Settled(l)' <=> Settled(l)
                         /\ ToSet(names[l])' = ToSet(names[l])
<1> SUFFICES ASSUME NEW l \in Lives
             PROVE  /\ Settled(l)' <=> Settled(l)
                    /\ ToSet(names[l])' = ToSet(names[l])
  OBVIOUS
<1>1. ToSet(names[l])' = ToSet(names[l])
  BY DEF ToSet
<1>2. RowsOf(l)' = RowsOf(l)
  BY DEF RowsOf, ToSet
<1>3. Settled(l)' <=> Settled(l)
  BY <1>2 DEF Settled
<1> QED
  BY <1>1, <1>3

LEMMA SameDesk ==
  ASSUME DeskInv, UNCHANGED <<articles, names, desk>>
  PROVE  DeskInv'
  BY SameSettled DEF DeskInv

LEMMA SamePosts ==
  ASSUME CrierInv, UNCHANGED <<articles, ledger, shown, lost, crier>>
  PROVE  CrierInv'
  BY DEF CrierInv, Unposted, Out

LEMMA WhatSettles ==
  ASSUME NEW l
  PROVE  Settled(l) <=> \E n \in ToSet(names[l]) :
                          \/ articles[<<l, n>>].status = "published"
                          \/ articles[<<l, n>>].attempts >= MaxAttempts
  BY DEF Settled, RowsOf

\* The row of a life whose obituary is out, and of one that wants an obituary.
LEMMA RowOut ==
  ASSUME ObituariesTypeOK, OneObituary, NEW s \in Slugs, Out(s)
  PROVE  \E k \in Published : k[1] = s[1] /\ articles[k].slug = s
<1>1. PICK n \in Names : /\ articles[<<s[1], n>>].status = "published"
                         /\ articles[<<s[1], n>>].slug = s
  BY DEF Out
<1>2. s[1] \in Lives
  BY DEF Slugs
<1>3. <<s[1], n>> \in Published
  BY <1>1, <1>2 DEF Published
<1> QED
  BY <1>1, <1>3

LEMMA RowWanted ==
  ASSUME ObituariesTypeOK, OneObituary, NEW l \in Lives, ~Settled(l)
  PROVE  /\ \A k \in Published : k[1] # l
         /\ \A n \in ToSet(names[l]) : /\ articles[<<l, n>>].status # "published"
                                       /\ articles[<<l, n>>].attempts < MaxAttempts
<1>1. \A n \in ToSet(names[l]) : /\ articles[<<l, n>>].status # "published"
                                 /\ articles[<<l, n>>].attempts < MaxAttempts
  <2> SUFFICES ASSUME NEW n \in ToSet(names[l])
               PROVE  /\ articles[<<l, n>>].status # "published"
                      /\ articles[<<l, n>>].attempts < MaxAttempts
    OBVIOUS
  <2>1. /\ articles[<<l, n>>].status # "published"
        /\ ~(articles[<<l, n>>].attempts >= MaxAttempts)
    BY WhatSettles
  <2>2. articles[<<l, n>>].attempts \in Nat /\ MaxAttempts \in Nat
    BY NewsroomRows, ObituariesAssumption
  <2> QED
    BY <2>1, <2>2
<1>2. ASSUME NEW k \in Published, k[1] = l PROVE FALSE
  <2>1. k \in Lives \X Names /\ articles[k].status = "published" /\ articles[k].attempts > 0
    BY <1>2 DEF Published, OneObituary
  <2>2. k[1] \in Lives /\ k[2] \in Names /\ k = <<k[1], k[2]>>
    BY <2>1
  <2>3. k[2] \in ToSet(names[l])
    BY <1>2, <2>1, <2>2 DEF OneObituary
  <2> QED
    BY <1>1, <1>2, <2>1, <2>2, <2>3
<1> QED
  BY <1>1, <1>2

LEMMA ObituariesInitInv == ObituariesInit => ObituariesInv
<1> SUFFICES ASSUME ObituariesInit PROVE ObituariesInv
  OBVIOUS
<1>1. \A l \in Lives : names[l] \in Seq(Names)
  BY ObituariesAssumption DEF ObituariesInit
<1>2. names \in [Lives -> Seq(Names)]
  BY <1>1 DEF ObituariesInit
<1>3. articles \in [Lives \X Names -> Article]
  BY DEF ObituariesInit, Article
<1>4. ledger \in [Slugs \X Channels -> Entry]
  BY DEF ObituariesInit, Entry
<1>5. shown \in [Lives \X Channels -> Nat]
  BY DEF ObituariesInit
<1>6. /\ deaths \in Seq(Lives) /\ desk \in Seq(Target) /\ crier \in Seq(Slugs \X Channels)
      /\ Len(desk) = 0 /\ Len(crier) = 0 /\ IsInjective(deaths)
      /\ DOMAIN desk = {} /\ DOMAIN crier = {}
  BY EmptySeq DEF ObituariesInit, IsInjective
<1>7. ObituariesTypeOK
  BY <1>2, <1>3, <1>4, <1>5, <1>6, ObituariesAssumption
     DEF ObituariesTypeOK, ObituariesInit
<1>8. OneObituary
  <2>1. \A l \in Lives : names[l] # <<>>
    BY DEF ObituariesInit
  <2> QED
    BY <2>1 DEF OneObituary, Published, ObituariesInit
<1>9. DeskInv /\ CrierInv
  BY <1>6 DEF DeskInv, CrierInv, ObituariesInit
<1> QED
  BY <1>7, <1>8, <1>9 DEF ObituariesInv

LEMMA DieStep ==
  ASSUME ObituariesInv, NEW l \in Lives, Die(l)
  PROVE  ObituariesInv'
<1>1. ObituariesTypeOK'
  <2>1. deaths \in Seq(Lives) /\ IsInjective(deaths) /\ l \notin ToSet(deaths)
    BY DEF Die, ObituariesInv, ObituariesTypeOK
  <2>2. deaths' = Append(deaths, l)
    BY DEF Die
  <2>3. deaths' \in Seq(Lives)
    BY <2>1, <2>2
  <2>4. IsInjective(deaths')
    <3>1. /\ Len(deaths) \in Nat /\ DOMAIN deaths = 1 .. Len(deaths)
          /\ Len(deaths') = Len(deaths) + 1 /\ DOMAIN deaths' = 1 .. Len(deaths) + 1
          /\ deaths'[Len(deaths) + 1] = l
          /\ \A i \in 1 .. Len(deaths) : deaths'[i] = deaths[i]
      BY <2>1, <2>2, <2>3, LenProperties, AppendProperties
    <3>2. \A i \in DOMAIN deaths : deaths[i] # l
      BY <2>1 DEF ToSet
    <3> QED
      BY <2>1, <3>1, <3>2 DEF IsInjective
  <2> QED
    BY <2>3, <2>4 DEF Die, ObituariesInv, ObituariesTypeOK
<1>2. OneObituary' /\ DeskInv'
  BY SameArticles, SameDesk DEF Die, ObituariesInv
<1>3. CrierInv'
  BY SamePosts DEF Die, ObituariesInv
<1> QED
  BY <1>1, <1>2, <1>3 DEF ObituariesInv

LEMMA RenameStep ==
  ASSUME ObituariesInv, NEW l \in Lives, NEW n \in Names, Rename(l, n)
  PROVE  ObituariesInv'
<1> USE DEF ObituariesInv
<1>1. names' = [names EXCEPT ![l] = Append(@, n)]
  BY DEF Rename
<1>2. \A x \in Lives : /\ names'[x] \in Seq(Names)
                       /\ ToSet(names'[x]) = IF x = l THEN ToSet(names[x]) \cup {n}
                                                      ELSE ToSet(names[x])
  <2> SUFFICES ASSUME NEW x \in Lives
               PROVE  /\ names'[x] \in Seq(Names)
                      /\ ToSet(names'[x]) = IF x = l THEN ToSet(names[x]) \cup {n}
                                                     ELSE ToSet(names[x])
    OBVIOUS
  <2>1. names[x] \in Seq(Names) /\ names \in [Lives -> Seq(Names)]
    BY DEF ObituariesTypeOK
  <2>2. CASE x # l
    BY <1>1, <2>1, <2>2
  <2>3. CASE x = l
    <3>1. names'[x] = Append(names[x], n)
      BY <1>1, <2>1, <2>3
    <3>2. /\ names'[x] \in Seq(Names) /\ Len(names[x]) \in Nat
          /\ DOMAIN names[x] = 1 .. Len(names[x])
          /\ DOMAIN names'[x] = 1 .. Len(names[x]) + 1
          /\ names'[x][Len(names[x]) + 1] = n
          /\ \A i \in 1 .. Len(names[x]) : names'[x][i] = names[x][i]
      BY <2>1, <3>1, LenProperties, AppendProperties
    <3>3. ToSet(names'[x]) \subseteq ToSet(names[x]) \cup {n}
      BY <3>2 DEF ToSet
    <3>4. \A i \in DOMAIN names[x] : i \in DOMAIN names'[x] /\ names'[x][i] = names[x][i]
      BY <3>2
    <3>5. Len(names[x]) + 1 \in DOMAIN names'[x]
      BY <3>2
    <3>6. ToSet(names[x]) \cup {n} \subseteq ToSet(names'[x])
      BY <3>2, <3>4, <3>5 DEF ToSet
    <3> QED
      BY <2>3, <3>2, <3>3, <3>6
  <2> QED
    BY <2>2, <2>3
<1>3. ObituariesTypeOK'
  <2>1. names' \in [Lives -> Seq(Names)]
    BY <1>1, <1>2 DEF ObituariesTypeOK
  <2>2. renames' \in 0 .. MaxRenames
    BY ObituariesAssumption DEF Rename, ObituariesTypeOK
  <2> QED
    BY <2>1, <2>2 DEF Rename, ObituariesTypeOK
<1>4. OneObituary'
  <2>1. \A x \in Lives : names'[x] # <<>>
    <3> SUFFICES ASSUME NEW x \in Lives PROVE names'[x] # <<>>
      OBVIOUS
    <3>1. n \in ToSet(names'[x]) \/ names'[x] = names[x]
      BY <1>1, <1>2 DEF ObituariesTypeOK
    <3>2. ToSet(<<>>) = {}
      BY DEF ToSet
    <3> QED
      BY <3>1, <3>2 DEF OneObituary
  <2>2. articles' = articles
    BY DEF Rename
  <2>3. \A x \in Lives, m \in Names : articles'[<<x, m>>].attempts > 0 => m \in ToSet(names'[x])
    BY <1>2, <2>2 DEF OneObituary
  <2>4. Published' = Published
    BY <2>2 DEF Published
  <2> QED
    BY <2>1, <2>2, <2>3, <2>4 DEF OneObituary, ToSet
<1>5. \A x \in Lives : ~Settled(x) => ~Settled(x)'
  <2> SUFFICES ASSUME NEW x \in Lives, ~Settled(x), Settled(x)' PROVE FALSE
    OBVIOUS
  <2>1. PICK m \in ToSet(names'[x]) :
          \/ articles[<<x, m>>].status = "published"
          \/ articles[<<x, m>>].attempts >= MaxAttempts
    BY DEF Settled, RowsOf, Rename
  <2>2. m \in Names
    BY <1>2, NewsroomRows
  <2>3. m \in ToSet(names[x])
    <3>1. CASE articles[<<x, m>>].status = "published"
      <4>1. <<x, m>> \in Published
        BY <2>2, <3>1 DEF Published
      <4> QED
        BY <2>2, <4>1 DEF OneObituary
    <3>2. CASE articles[<<x, m>>].attempts >= MaxAttempts
      <4>1. articles[<<x, m>>].attempts > 0
        BY <2>2, <3>2, NewsroomRows, ObituariesAssumption
      <4> QED
        BY <2>2, <4>1 DEF OneObituary
    <3> QED
      BY <2>1, <3>1, <3>2
  <2> QED
    BY <2>1, <2>3, WhatSettles
<1>6. DeskInv'
  <2> SUFFICES ASSUME NEW i \in DOMAIN desk, NEW x \in Lives, desk[i].life = x
               PROVE  /\ desk[i].name \in ToSet(names'[x]) /\ ~Settled(x)'
                      /\ \A j \in DOMAIN desk : desk[j].life = x => i = j
    BY DEF DeskInv, Rename, ToSet
  <2>1. /\ desk[i].name \in ToSet(names[x]) /\ ~Settled(x)
        /\ \A j \in DOMAIN desk : desk[j].life = x => i = j
    BY DEF DeskInv
  <2>2. ToSet(names[x]) \subseteq ToSet(names'[x])
    BY <1>2
  <2> QED
    BY <1>5, <2>1, <2>2
<1>7. CrierInv'
  BY SamePosts DEF Rename
<1> QED
  BY <1>3, <1>4, <1>6, <1>7

LEMMA ReadDeathsStep ==
  ASSUME ObituariesInv, ReadDeaths
  PROVE  ObituariesInv'
<1> USE DEF ObituariesInv
<1> DEFINE S == {i \in DOMAIN deaths : ~Settled(deaths[i])}
           batch(order) == [i \in DOMAIN order |-> TargetOf(deaths[order[i]])]
<1>1. PICK order \in SetToSeqs(S) : desk' = FirstOf(batch(order), BatchCap)
  BY DEF ReadDeaths
<1>2. /\ deaths \in Seq(Lives) /\ Len(deaths) \in Nat /\ DOMAIN deaths = 1 .. Len(deaths)
      /\ \A i \in DOMAIN deaths : deaths[i] \in Lives
      /\ \A i, j \in DOMAIN deaths : deaths[i] = deaths[j] => i = j
  <2>1. deaths \in Seq(Lives) /\ IsInjective(deaths)
    BY DEF ObituariesTypeOK
  <2>2. Len(deaths) \in Nat /\ DOMAIN deaths = 1 .. Len(deaths)
    BY <2>1, LenProperties
  <2>3. \A i \in DOMAIN deaths : deaths[i] \in Lives
    BY <2>1, <2>2, ElementOfSeq
  <2> QED
    BY <2>1, <2>2, <2>3 DEF IsInjective
<1>3. IsFiniteSet(S)
  <2>1. S \subseteq 1 .. Len(deaths) /\ Len(deaths) \in Int
    BY <1>2
  <2>2. IsFiniteSet(1 .. Len(deaths))
    BY <2>1, FS_Interval
  <2> HIDE DEF S
  <2> QED
    BY <2>1, <2>2, FS_Subset
<1> HIDE DEF S
<1>4. /\ order \in Seq(S) /\ DOMAIN order = 1 .. Len(order) /\ Len(order) \in Nat
      /\ \A i \in DOMAIN order : order[i] \in S
      /\ \A i, j \in DOMAIN order : order[i] = order[j] => i = j
  BY <1>3, RowsInOrder, LenProperties
<1>5. \A i \in DOMAIN order : /\ order[i] \in DOMAIN deaths /\ deaths[order[i]] \in Lives
                              /\ ~Settled(deaths[order[i]])
  BY <1>2, <1>4 DEF S
<1>7. \A l \in Lives : Last(names[l]) \in ToSet(names[l]) \cap Names
  <2> SUFFICES ASSUME NEW l \in Lives PROVE Last(names[l]) \in ToSet(names[l]) \cap Names
    OBVIOUS
  <2>1. names[l] \in Seq(Names) /\ names[l] # <<>>
    BY DEF ObituariesTypeOK, OneObituary
  <2>2. Len(names[l]) \in DOMAIN names[l]
    BY <2>1, EmptySeq, LenProperties
  <2> QED
    BY <2>1, <2>2, ElementOfSeq, LenProperties DEF Last, ToSet
<1>8. \A i \in DOMAIN order : TargetOf(deaths[order[i]]) \in Target
  BY <1>5, <1>7 DEF TargetOf, Target
<1>9. batch(order) \in Seq(Target)
  BY <1>4, <1>8, IsASeq
<1>10. /\ desk' \in Seq(Target) /\ Len(desk') <= BatchCap
       /\ \A i \in DOMAIN desk' : i \in DOMAIN order /\ desk'[i] = TargetOf(deaths[order[i]])
  <2> HIDE DEF batch
  <2>1. /\ desk' \in Seq(Target) /\ Len(desk') <= BatchCap
        /\ \A i \in DOMAIN desk' : i \in DOMAIN batch(order) /\ desk'[i] = batch(order)[i]
    BY <1>1, <1>9, FirstOfRows, ObituariesAssumption
  <2> QED
    BY <2>1 DEF batch
<1>11. ObituariesTypeOK' /\ OneObituary' /\ CrierInv'
  BY <1>10, SameArticles, SamePosts DEF ReadDeaths, ObituariesTypeOK
<1>12. DeskInv'
  <2> SUFFICES ASSUME NEW i \in DOMAIN desk', NEW l \in Lives, desk'[i].life = l
               PROVE  /\ desk'[i].name \in ToSet(names[l]) /\ ~Settled(l)
                      /\ \A j \in DOMAIN desk' : desk'[j].life = l => i = j
    <3>1. UNCHANGED <<articles, names>>
      BY DEF ReadDeaths
    <3> QED
      BY <3>1, SameSettled DEF DeskInv
  <2>1. \A j \in DOMAIN desk' : /\ j \in DOMAIN order
                                /\ desk'[j].life = deaths[order[j]]
                                /\ desk'[j].name = Last(names[deaths[order[j]]])
    BY <1>10 DEF TargetOf
  <2> QED
    BY <1>2, <1>4, <1>5, <1>7, <2>1
<1> QED
  BY <1>11, <1>12


\* The newsdesk is done with the first target: its row is written anew.
LEMMA DeskHandles ==
  ASSUME ObituariesInv, Handled, NEW row \in Article,
         articles' = WithRow(Head(desk), row), row.attempts \in 1 .. MaxAttempts + 1,
         row.status = "published" =>
           /\ row.slug \in Slugs
           /\ row.slug[1] = Head(desk).life /\ row.slug[2] = Head(desk).name,
         lost \subseteq lost', lost' \subseteq Lives, faults' \in 0 .. MaxFaults,
         UNCHANGED <<deaths, names, ledger, crier, renames, shown>>
  PROVE  ObituariesInv'
<1> USE DEF ObituariesInv
<1> DEFINE t == Head(desk)
           key == <<t.life, t.name>>
<1>1. desk \in Seq(Target) /\ desk # <<>> /\ desk' = Tail(desk)
  BY DEF Handled, ObituariesTypeOK
<1>2. /\ t = desk[1] /\ 1 \in DOMAIN desk /\ t \in Target
      /\ desk' \in Seq(Target) /\ Len(desk') <= Len(desk)
      /\ \A i \in DOMAIN desk' : /\ i \in Nat \ {0} /\ i + 1 \in DOMAIN desk
                                 /\ desk'[i] = desk[i + 1]
  BY <1>1, RestOfBatch
<1>3. /\ t.life \in Lives /\ t.name \in Names /\ key \in Lives \X Names
      /\ t.name \in ToSet(names[t.life]) /\ ~Settled(t.life)
  BY <1>2 DEF Target, DeskInv
<1>4. \A k \in Published : k[1] # t.life /\ k # key
  BY <1>3, RowWanted
<1>5. articles \in [Lives \X Names -> Article] /\ articles' = [articles EXCEPT ![key] = row]
  BY DEF ObituariesTypeOK, WithRow
<1> HIDE DEF t, key
<1>6. /\ articles' \in [Lives \X Names -> Article] /\ articles'[key] = row
      /\ \A k \in Lives \X Names : k # key => articles'[k] = articles[k]
  BY <1>3, <1>5
<1>7. \A k \in Published' : k \in Published \/ (k = key /\ row.status = "published")
  BY <1>6 DEF Published
<1>8. Published \subseteq Published' /\ \A k \in Published : articles'[k] = articles[k]
  BY <1>4, <1>6 DEF Published
<1>9. ObituariesTypeOK'
  <2>1. \A k \in Lives \X Names :
          /\ articles'[k].status = "published" => articles'[k].slug # None
          /\ articles'[k].attempts <= MaxAttempts + 1
    <3> SUFFICES ASSUME NEW k \in Lives \X Names
                 PROVE  /\ articles'[k].status = "published" => articles'[k].slug # None
                        /\ articles'[k].attempts <= MaxAttempts + 1
      OBVIOUS
    <3>1. CASE k # key
      BY <1>6, <3>1 DEF ObituariesTypeOK
    <3>2. CASE k = key
      <4>1. articles'[k].attempts <= MaxAttempts + 1
        BY <1>6, <3>2, ObituariesAssumption
      <4>2. articles'[k].status = "published" => articles'[k].slug # None
        BY <1>6, <3>2, ObituariesAssumption DEF Slugs
      <4> QED
        BY <4>1, <4>2
    <3> QED
      BY <3>1, <3>2
  <2> QED
    BY <1>2, <1>6, <2>1, ObituariesAssumption DEF ObituariesTypeOK
<1>10. OneObituary'
  <2>1. \A l \in Lives, n \in Names : articles'[<<l, n>>].attempts > 0 =>
          n \in ToSet(names[l])
    <3> SUFFICES ASSUME NEW l \in Lives, NEW n \in Names, articles'[<<l, n>>].attempts > 0
                 PROVE  n \in ToSet(names[l])
      OBVIOUS
    <3>1. CASE <<l, n>> # key
      BY <1>6, <3>1 DEF OneObituary
    <3>2. CASE <<l, n>> = key
      BY <1>3, <3>2 DEF key
    <3> QED
      BY <3>1, <3>2
  <2>2. \A k \in Published' : /\ articles'[k].attempts > 0
                              /\ articles'[k].slug \in Slugs
                              /\ articles'[k].slug[1] = k[1] /\ articles'[k].slug[2] = k[2]
    <3> SUFFICES ASSUME NEW k \in Published'
                 PROVE  /\ articles'[k].attempts > 0
                        /\ articles'[k].slug \in Slugs
                        /\ articles'[k].slug[1] = k[1] /\ articles'[k].slug[2] = k[2]
      OBVIOUS
    <3>1. CASE k \in Published
      BY <1>8, <3>1 DEF OneObituary
    <3>2. CASE k = key /\ row.status = "published"
      <4>1. k[1] = t.life /\ k[2] = t.name
        BY <3>2 DEF key
      <4>2. articles'[k] = row
        BY <1>6, <3>2
      <4>3. row.attempts > 0
        BY ObituariesAssumption
      <4>4. row.slug \in Slugs /\ row.slug[1] = t.life /\ row.slug[2] = t.name
        BY <3>2 DEF t
      <4> QED
        BY <4>1, <4>2, <4>3, <4>4
    <3> QED
      BY <1>7, <3>1, <3>2
  <2>3. \A j, k \in Published' : j[1] = k[1] => j = k
    <3>1. key[1] = t.life
      BY DEF key
    <3> QED
      BY <1>4, <1>7, <3>1 DEF OneObituary
  <2> QED
    BY <2>1, <2>2, <2>3 DEF OneObituary
<1>11. DeskInv'
  <2> SUFFICES ASSUME NEW i \in DOMAIN desk', NEW l \in Lives, desk'[i].life = l
               PROVE  /\ desk'[i].name \in ToSet(names'[l]) /\ ~Settled(l)'
                      /\ \A j \in DOMAIN desk' : desk'[j].life = l => i = j
    BY DEF DeskInv
  <2>1. /\ i + 1 \in DOMAIN desk /\ desk'[i] = desk[i + 1] /\ i + 1 # 1
        /\ desk'[i].name \in ToSet(names[l]) /\ ~Settled(l)
    BY <1>2 DEF DeskInv
  <2>2. l # t.life
    BY <1>2, <1>3, <2>1 DEF DeskInv
  <2>3. \A n : <<l, n>> # key
    BY <2>2 DEF key
  <2>4. \A n \in ToSet(names[l]) : articles'[<<l, n>>] = articles[<<l, n>>]
    BY <1>6, <2>3, NewsroomRows
  <2>5. ~Settled(l)'
    BY <2>1, <2>4 DEF Settled, RowsOf, ToSet
  <2>6. \A j \in DOMAIN desk' : desk'[j].life = l => i = j
    BY <1>2 DEF DeskInv
  <2> QED
    BY <2>1, <2>5, <2>6
<1>12. \A s \in Slugs : Out(s) => Out(s)'
  <2> SUFFICES ASSUME NEW s \in Slugs, Out(s) PROVE Out(s)'
    OBVIOUS
  <2>1. PICK k \in Published : k[1] = s[1] /\ articles[k].slug = s
    BY RowOut
  <2>2. k = <<s[1], k[2]>> /\ k[2] \in Names
    BY <2>1 DEF Published
  <2>3. articles'[k].status = "published" /\ articles'[k].slug = s
    BY <1>8, <2>1 DEF Published
  <2> QED
    BY <2>2, <2>3 DEF Out
<1>13. CrierInv'
  <2>1. \A s \in Slugs, c \in Channels : Unposted(s, c) => Unposted(s, c)'
    BY <1>12 DEF Unposted
  <2> QED
    BY <1>12, <2>1 DEF CrierInv
<1> QED
  BY <1>9, <1>10, <1>11, <1>13

LEMMA DeskSteps ==
  ASSUME ObituariesInv, DeskNext
  PROVE  ObituariesInv'
<1> USE DEF ObituariesInv
<1>1. CASE ReadDeaths
  BY <1>1, ReadDeathsStep
<1> DEFINE t == Head(desk)
<1>2. ASSUME Handled
      PROVE  /\ t \in Target /\ RowOf(t) \in Article
             /\ RowOf(t).attempts \in 0 .. MaxAttempts - 1 /\ RowOf(t).status # "published"
  <2>1. desk \in Seq(Target) /\ desk # <<>>
    BY <1>2 DEF Handled, ObituariesTypeOK
  <2>2. t \in Target /\ t = desk[1] /\ 1 \in DOMAIN desk
    BY <2>1, RestOfBatch
  <2>3. /\ t.life \in Lives /\ t.name \in Names
        /\ t.name \in ToSet(names[t.life]) /\ ~Settled(t.life)
    BY <2>2 DEF Target, DeskInv
  <2>4. RowOf(t) \in Article /\ RowOf(t).attempts \in Nat
    BY <2>3, NewsroomRows DEF RowOf
  <2>5. RowOf(t).status # "published" /\ RowOf(t).attempts < MaxAttempts
    BY <2>3, RowWanted DEF RowOf
  <2> QED
    BY <2>2, <2>4, <2>5, ObituariesAssumption
<1>3. ASSUME NEW h \in Headlines, Handled
      PROVE  LET row == PublishedRow(RowOf(t), t, h)
             IN  /\ row \in Article /\ row.attempts = RowOf(t).attempts + 1
                 /\ row.slug \in Slugs /\ row.slug[1] = t.life /\ row.slug[2] = t.name
  <2>1. t.life \in Lives /\ t.name \in Names /\ RowOf(t).attempts \in Nat
    BY <1>2, <1>3, ObituariesAssumption DEF Target
  <2>2. <<t.life, t.name, h>> \in Slugs
    BY <2>1 DEF Slugs
  <2> HIDE DEF t
  <2> QED
    BY <2>1, <2>2 DEF PublishedRow, Article
<1>4. ASSUME NEW row \in Article
      PROVE  /\ FailedRow(row) \in Article /\ FailedRow(row).status = "failed"
             /\ FailedRow(row).attempts = row.attempts + 1
  <2> DEFINE S == Slugs \cup {None}
             R == [status: {"none", "failed", "published"}, attempts: Nat, slug: S]
  <2>1. row \in R
    BY <1>4 DEF Article
  <2> HIDE DEF S
  <2> DEFINE failed == [row EXCEPT !.status = "failed"]
  <2>2. failed \in R /\ failed.status = "failed" /\ failed.attempts = row.attempts
    BY <2>1
  <2>3. FailedRow(row) = [failed EXCEPT !.attempts = @ + 1]
    BY <2>1 DEF FailedRow
  <2> HIDE DEF failed
  <2>4. FailedRow(row) \in R
    BY <2>2, <2>3
  <2>5. FailedRow(row).status = "failed" /\ FailedRow(row).attempts = row.attempts + 1
    BY <2>2, <2>3
  <2> QED
    BY <2>4, <2>5 DEF Article, S
<1>5. lost \subseteq Lives /\ faults \in 0 .. MaxFaults
  BY DEF ObituariesTypeOK
<1>6. CASE Publish
  <2>1. PICK h \in Headlines : articles' = WithRow(t, PublishedRow(RowOf(t), t, h))
    BY <1>6 DEF Publish
  <2>2. Handled /\ UNCHANGED <<deaths, names, ledger, crier, renames, faults, shown, lost>>
    BY <1>6 DEF Publish
  <2> DEFINE row == PublishedRow(RowOf(t), t, h)
  <2>3. /\ row \in Article /\ row.attempts = RowOf(t).attempts + 1
        /\ row.slug \in Slugs /\ row.slug[1] = t.life /\ row.slug[2] = t.name
    BY <1>3, <2>2
  <2> HIDE DEF row
  <2>4. row.attempts \in 1 .. MaxAttempts + 1
    BY <1>2, <2>2, <2>3, ObituariesAssumption
  <2>5. articles' = WithRow(Head(desk), row)
    BY <2>1 DEF row
  <2> QED
    BY <1>5, <2>2, <2>3, <2>4, <2>5, DeskHandles
<1>7. CASE Fail
  <2>1. /\ Handled /\ articles' = WithRow(t, FailedRow(RowOf(t)))
        /\ UNCHANGED <<deaths, names, ledger, crier, renames, faults, shown, lost>>
    BY <1>7 DEF Fail
  <2> DEFINE row == FailedRow(RowOf(t))
  <2>2. /\ row \in Article /\ row.attempts = RowOf(t).attempts + 1
        /\ row.status = "failed"
    BY <1>2, <1>4, <2>1
  <2>3. articles' = WithRow(Head(desk), row)
    BY <2>1
  <2> HIDE DEF row
  <2>4. row.attempts \in 1 .. MaxAttempts + 1
    BY <1>2, <2>1, <2>2, ObituariesAssumption
  <2> QED
    BY <1>5, <2>1, <2>2, <2>3, <2>4, DeskHandles
<1>8. CASE PublishUnanswered
  <2>1. PICK h \in Headlines :
          articles' = WithRow(t, FailedRow(PublishedRow(RowOf(t), t, h)))
    BY <1>8 DEF PublishUnanswered
  <2>2. /\ Handled /\ UNCHANGED <<deaths, names, ledger, crier, renames, shown>>
        /\ faults < MaxFaults /\ faults' = faults + 1 /\ lost' = lost \cup {t.life}
    BY <1>8 DEF PublishUnanswered
  <2> DEFINE row == FailedRow(PublishedRow(RowOf(t), t, h))
  <2>3. /\ row \in Article /\ row.attempts = RowOf(t).attempts + 1 + 1
        /\ row.status = "failed"
    BY <1>3, <1>4, <2>2
  <2>4. articles' = WithRow(Head(desk), row)
    BY <2>1
  <2> HIDE DEF row
  <2>5. row.attempts \in 1 .. MaxAttempts + 1
    BY <1>2, <2>2, <2>3, ObituariesAssumption
  <2>6. lost \subseteq lost' /\ lost' \subseteq Lives
    BY <1>2, <1>5, <2>2 DEF Target
  <2>7. faults' \in 0 .. MaxFaults
    BY <1>5, <2>2, ObituariesAssumption
  <2> QED
    BY <2>2, <2>3, <2>4, <2>5, <2>6, <2>7, DeskHandles
<1>9. CASE DeskStops
  <2>1. /\ desk' = <<>> /\ faults' \in 0 .. MaxFaults
        /\ UNCHANGED <<deaths, names, articles, ledger, crier, renames, shown, lost>>
    BY <1>5, <1>9, ObituariesAssumption DEF DeskStops
  <2>2. desk' \in Seq(Target) /\ Len(desk') = 0 /\ DOMAIN desk' = {}
    BY <2>1, EmptySeq
  <2>3. ObituariesTypeOK'
    BY <2>1, <2>2, ObituariesAssumption DEF ObituariesTypeOK
  <2> QED
    BY <2>1, <2>2, <2>3, SameArticles, SamePosts DEF DeskInv
<1> QED
  BY <1>1, <1>6, <1>7, <1>8, <1>9 DEF DeskNext


-----------------------------------------------------------------------------
\* The crier.

LEMMA ObituariesRest ==
  ASSUME ObituariesInv, ObituariesTypeOK', CrierInv',
         UNCHANGED <<deaths, names, articles, desk>>
  PROVE  ObituariesInv'
  BY SameArticles, SameDesk DEF ObituariesInv

LEMMA ReadObituariesStep ==
  ASSUME ObituariesInv, ReadObituaries
  PROVE  ObituariesInv'
<1> USE DEF ObituariesInv
<1> DEFINE S == {e \in Slugs \X Channels : Unposted(e[1], e[2])}
<1>1. PICK seq \in SetToSeqs(S) : crier' = FirstOf(seq, BatchCap)
  BY DEF ReadObituaries
<1>2. IsFiniteSet(S)
  <2> DEFINE T == {articles[k].slug : k \in Lives \X Names}
  <2>1. IsFiniteSet(Lives \X Names)
    BY FS_Product, ObituariesAssumption
  <2>2. IsFiniteSet(T)
    <3> DEFINE f == [k \in Lives \X Names |-> articles[k].slug]
    <3>1. f \in Surjection(Lives \X Names, T)
      BY DEF Surjection
    <3> HIDE DEF T, f
    <3> QED
      BY <2>1, <3>1, FS_Surjection
  <2>3. \A s : Out(s) /\ s[1] \in Lives => s \in T
    BY DEF Out
  <2>4. S \subseteq T \X Channels
    <3> SUFFICES ASSUME NEW e \in S PROVE e \in T \X Channels
      OBVIOUS
    <3>1. e \in Slugs \X Channels /\ Out(e[1])
      BY DEF Unposted
    <3>2. e[1] \in Slugs /\ e[2] \in Channels /\ e = <<e[1], e[2]>>
      BY <3>1
    <3>3. e[1][1] \in Lives
      BY <3>2 DEF Slugs
    <3>4. e[1] \in T
      BY <2>3, <3>1, <3>3
    <3> QED
      BY <3>2, <3>4
  <2> HIDE DEF T
  <2>5. IsFiniteSet(T \X Channels)
    BY <2>2, FS_Product, ObituariesAssumption
  <2> QED
    BY <2>4, <2>5, FS_Subset
<1> HIDE DEF S
<1>3. /\ seq \in Seq(S) /\ \A i \in DOMAIN seq : seq[i] \in S
      /\ \A i, j \in DOMAIN seq : seq[i] = seq[j] => i = j
  BY <1>2, RowsInOrder
<1>4. \A i \in DOMAIN seq : /\ seq[i] \in Slugs \X Channels
                            /\ Unposted(seq[i][1], seq[i][2])
  BY <1>3 DEF S
<1>5. seq \in Seq(Slugs \X Channels)
  BY <1>3, <1>4, LenProperties, IsASeq
<1> HIDE DEF ObituariesInv
<1>6. /\ crier' \in Seq(Slugs \X Channels) /\ Len(crier') <= BatchCap
      /\ \A i \in DOMAIN crier' : i \in DOMAIN seq /\ crier'[i] = seq[i]
  BY <1>1, <1>5, FirstOfRows, ObituariesAssumption
<1>7. UNCHANGED <<deaths, names, articles, desk, ledger, renames, faults, shown, lost>>
  BY DEF ReadObituaries
<1>8. ObituariesTypeOK'
  BY <1>6, <1>7 DEF ObituariesInv, ObituariesTypeOK
<1>9. CrierInv'
  <2>1. \A i \in DOMAIN crier', s \in Slugs, c \in Channels : crier'[i] = <<s, c>> =>
          /\ Unposted(s, c)'
          /\ \A j \in DOMAIN crier' : crier'[j] = <<s, c>> => i = j
    <3> SUFFICES ASSUME NEW i \in DOMAIN crier', NEW s \in Slugs, NEW c \in Channels,
                        crier'[i] = <<s, c>>
                 PROVE  /\ Unposted(s, c)'
                        /\ \A j \in DOMAIN crier' : crier'[j] = <<s, c>> => i = j
      OBVIOUS
    <3>1. i \in DOMAIN seq /\ seq[i] = <<s, c>>
      BY <1>6
    <3>2. Unposted(s, c)
      BY <1>4, <3>1
    <3>3. Unposted(s, c)'
      BY <1>7, <3>2 DEF Unposted, Out
    <3>4. \A j \in DOMAIN crier' : crier'[j] = <<s, c>> => i = j
      BY <1>3, <1>6, <3>1
    <3> QED
      BY <3>3, <3>4
  <2> QED
    BY <1>7, <2>1 DEF ObituariesInv, CrierInv, Out
<1> QED
  BY <1>7, <1>8, <1>9, ObituariesRest

\* A post is handled: the ledger counts the attempt, and the channel may show it.
LEMMA CrierHandles ==
  ASSUME ObituariesInv, Posted, NEW posted \in BOOLEAN, Recorded(Head(crier), posted),
         \/ Shown(Head(crier)) /\ posted /\ lost' = lost
         \/ Shown(Head(crier)) /\ lost' = lost \cup {Head(crier)[1][1]}
         \/ shown' = shown /\ ~posted /\ lost' = lost,
         faults' \in 0 .. MaxFaults,
         UNCHANGED <<deaths, names, articles, desk, renames>>
  PROVE  ObituariesInv'
<1> USE DEF ObituariesInv
<1> DEFINE e == Head(crier)
           l == e[1][1]
           row == [posted |-> ledger[e].posted \/ posted, attempts |-> ledger[e].attempts + 1]
<1>1. crier \in Seq(Slugs \X Channels) /\ crier # <<>> /\ crier' = Tail(crier)
  BY DEF Posted, ObituariesTypeOK
<1>2. /\ e = crier[1] /\ 1 \in DOMAIN crier /\ e \in Slugs \X Channels
      /\ crier' \in Seq(Slugs \X Channels) /\ Len(crier') <= Len(crier)
      /\ \A i \in DOMAIN crier' : /\ i \in Nat \ {0} /\ i + 1 \in DOMAIN crier
                                  /\ crier'[i] = crier[i + 1]
  BY <1>1, RestOfBatch
<1>3. /\ e[1] \in Slugs /\ e[2] \in Channels /\ e = <<e[1], e[2]>> /\ l \in Lives
      /\ Out(e[1]) /\ ~ledger[e].posted /\ ledger[e].attempts < MaxAttempts
  <2>1. e[1] \in Slugs /\ e[2] \in Channels /\ e = <<e[1], e[2]>>
    BY <1>2
  <2>2. Unposted(e[1], e[2])
    BY <1>2 DEF CrierInv
  <2>3. l \in Lives
    BY <2>1 DEF Slugs
  <2> HIDE DEF e
  <2> QED
    BY <2>1, <2>2, <2>3 DEF Unposted
<1>4. ledger \in [Slugs \X Channels -> Entry] /\ ledger[e] \in Entry
  BY <1>2 DEF ObituariesTypeOK
<1>5. ledger' = [ledger EXCEPT ![e] = row]
  BY <1>2, <1>4 DEF Recorded, Entry
<1>6. row \in Entry /\ row.posted = posted /\ row.attempts <= MaxAttempts
  <2>1. ledger[e].attempts \in Nat
    BY <1>4 DEF Entry
  <2>2. row.posted = posted
    BY <1>3
  <2>3. row.attempts \in Nat /\ row.attempts <= MaxAttempts
    BY <1>3, <2>1, ObituariesAssumption
  <2>4. row \in Entry
    BY <2>1 DEF Entry
  <2> QED
    BY <2>2, <2>3, <2>4
<1> HIDE DEF row
<1>7. /\ ledger' \in [Slugs \X Channels -> Entry] /\ ledger'[e] = row
      /\ \A x \in Slugs \X Channels : x # e => ledger'[x] = ledger[x]
  BY <1>2, <1>4, <1>5, <1>6
<1>8. /\ shown' \in [Lives \X Channels -> Nat]
      /\ \A x \in Lives \X Channels : x # <<l, e[2]>> => shown'[x] = shown[x]
      /\ \/ shown'[<<l, e[2]>>] = shown[<<l, e[2]>>]
         \/ shown'[<<l, e[2]>>] = shown[<<l, e[2]>>] + 1 /\ (posted \/ l \in lost')
  <2>1. shown \in [Lives \X Channels -> Nat] /\ <<l, e[2]>> \in Lives \X Channels
    BY <1>3 DEF ObituariesTypeOK
  <2>2. CASE shown' = shown
    BY <2>1, <2>2
  <2>3. CASE Shown(e) /\ (posted \/ l \in lost')
    <3>1. shown' = [shown EXCEPT ![<<l, e[2]>>] = @ + 1]
      BY <2>3 DEF Shown
    <3> HIDE DEF l, e
    <3> QED
      BY <2>1, <2>3, <3>1
  <2> QED
    BY <2>2, <2>3
<1>9. lost \subseteq lost' /\ lost' \subseteq lost \cup {l}
  OBVIOUS
<1> HIDE DEF e, l
<1>10. ObituariesTypeOK'
  <2>1. \A x \in Slugs \X Channels : ledger'[x].attempts <= MaxAttempts
    BY <1>6, <1>7 DEF ObituariesTypeOK
  <2> QED
    BY <1>2, <1>3, <1>7, <1>8, <1>9, <2>1, ObituariesAssumption DEF ObituariesTypeOK
<1>11. \A s \in Slugs, c \in Channels : ledger[<<s, c>>].posted => ledger'[<<s, c>>].posted
  <2> SUFFICES ASSUME NEW s \in Slugs, NEW c \in Channels, ledger[<<s, c>>].posted
               PROVE  ledger'[<<s, c>>].posted
    OBVIOUS
  <2>1. <<s, c>> # e /\ <<s, c>> \in Slugs \X Channels
    BY <1>3
  <2> QED
    BY <1>7, <2>1
<1>12. \A s \in Slugs, c \in Channels : ledger'[<<s, c>>].posted => Out(s)'
  <2> SUFFICES ASSUME NEW s \in Slugs, NEW c \in Channels, ledger'[<<s, c>>].posted
               PROVE  Out(s)
    BY DEF Out
  <2>1. CASE <<s, c>> = e
    BY <1>3, <2>1
  <2>2. CASE <<s, c>> # e
    <3>1. ledger[<<s, c>>].posted
      BY <1>7, <2>2
    <3> QED
      BY <3>1 DEF CrierInv
  <2> QED
    BY <2>1, <2>2
<1>13. ASSUME NEW i \in DOMAIN crier', NEW s \in Slugs, NEW c \in Channels,
              crier'[i] = <<s, c>>
       PROVE  /\ Unposted(s, c)'
              /\ \A j \in DOMAIN crier' : crier'[j] = <<s, c>> => i = j
  <2>1. /\ i + 1 \in DOMAIN crier /\ i + 1 # 1 /\ crier[i + 1] = <<s, c>> /\ Unposted(s, c)
    BY <1>2, <1>13 DEF CrierInv
  <2>2. <<s, c>> # e
    BY <1>2, <2>1 DEF CrierInv
  <2>3. ledger'[<<s, c>>] = ledger[<<s, c>>]
    BY <1>7, <2>2
  <2>4. Unposted(s, c)'
    BY <2>1, <2>3 DEF Unposted, Out
  <2>5. \A j \in DOMAIN crier' : crier'[j] = <<s, c>> => i = j
    BY <1>2, <1>13 DEF CrierInv
  <2> QED
    BY <2>4, <2>5
<1>14. ASSUME NEW x \in Lives \ lost', NEW c \in Channels
       PROVE  /\ shown'[<<x, c>>] <= 1
              /\ shown'[<<x, c>>] = 1 =>
                   \E s \in Slugs : s[1] = x /\ ledger'[<<s, c>>].posted
  <2>1. /\ x \in Lives \ lost /\ shown[<<x, c>>] <= 1 /\ shown[<<x, c>>] \in Nat
        /\ shown[<<x, c>>] = 1 =>
             \E s \in Slugs : s[1] = x /\ ledger[<<s, c>>].posted
    BY <1>9, NewsroomRows DEF CrierInv
  <2>2. CASE shown'[<<x, c>>] = shown[<<x, c>>]
    BY <1>11, <2>1, <2>2
  <2>3. CASE shown'[<<x, c>>] # shown[<<x, c>>]
    <3>1. <<x, c>> = <<l, e[2]>>
      BY <1>8, <2>3
    <3>2. shown'[<<x, c>>] = shown[<<x, c>>] + 1 /\ posted
      BY <1>8, <2>3, <3>1
    <3>3. ledger'[<<e[1], c>>].posted /\ e[1][1] = x
      BY <1>3, <1>6, <1>7, <3>1, <3>2 DEF l
    <3>4. shown[<<x, c>>] # 1
      <4> SUFFICES ASSUME NEW s \in Slugs, s[1] = x, ledger[<<s, c>>].posted
                   PROVE  FALSE
        BY <2>1
      <4>1. Out(s) /\ Out(e[1])
        BY <1>3 DEF CrierInv
      <4>2. PICK k \in Published : k[1] = s[1] /\ articles[k].slug = s
        BY <4>1, RowOut
      <4>3. PICK j \in Published : j[1] = e[1][1] /\ articles[j].slug = e[1]
        BY <1>3, <4>1, RowOut
      <4>4. s = e[1]
        BY <3>3, <4>2, <4>3 DEF OneObituary
      <4> QED
        BY <1>3, <3>1, <4>4
    <3>5. shown'[<<x, c>>] = 1
      BY <2>1, <3>2, <3>4
    <3>6. \E s \in Slugs : s[1] = x /\ ledger'[<<s, c>>].posted
      BY <1>3, <3>3
    <3>7. shown'[<<x, c>>] <= 1
      BY <3>5
    <3> QED
      BY <3>6, <3>7
  <2> QED
    BY <2>2, <2>3
<1>15. CrierInv'
  BY <1>12, <1>13, <1>14 DEF CrierInv
<1> QED
  BY <1>10, <1>15, ObituariesRest

LEMMA CrierSteps ==
  ASSUME ObituariesInv, CrierNext
  PROVE  ObituariesInv'
<1>1. lost \subseteq Lives /\ faults \in 0 .. MaxFaults /\ MaxFaults \in Nat
  BY ObituariesAssumption DEF ObituariesInv, ObituariesTypeOK
<1>2. CASE ReadObituaries
  BY <1>2, ReadObituariesStep
<1>3. CASE Post
  BY <1>1, <1>3, CrierHandles DEF Post
<1>4. CASE PostRefused
  BY <1>1, <1>4, CrierHandles DEF PostRefused
<1>5. CASE PostUnanswered
  <2>1. faults' \in 0 .. MaxFaults
    BY <1>1, <1>5 DEF PostUnanswered
  <2> QED
    BY <1>5, <2>1, CrierHandles DEF PostUnanswered
<1>6. CASE CrierStops
  <2> USE DEF ObituariesInv
  <2> DEFINE e == Head(crier)
             l == e[1][1]
  <2>1. /\ crier # <<>> /\ crier' = <<>> /\ faults' \in 0 .. MaxFaults
        /\ UNCHANGED <<deaths, names, articles, desk, ledger, renames>>
    BY <1>1, <1>6 DEF CrierStops
  <2>2. crier \in Seq(Slugs \X Channels)
    BY DEF ObituariesTypeOK
  <2>3. e \in Slugs \X Channels
    BY <2>1, <2>2, RestOfBatch
  <2>4. e[1] \in Slugs /\ e[2] \in Channels
    BY <2>3
  <2>5. l \in Lives
    BY <2>4 DEF Slugs
  <2>6. /\ shown' \in [Lives \X Channels -> Nat] /\ lost \subseteq lost' /\ lost' \subseteq Lives
        /\ \A x \in Lives \ lost', c \in Channels : shown'[<<x, c>>] = shown[<<x, c>>]
    <3>1. shown \in [Lives \X Channels -> Nat] /\ <<l, e[2]>> \in Lives \X Channels
      BY <2>4, <2>5 DEF ObituariesTypeOK
    <3>2. CASE UNCHANGED <<shown, lost>>
      BY <1>1, <3>1, <3>2
    <3>3. CASE Shown(e) /\ lost' = lost \cup {l}
      <4>1. shown' = [shown EXCEPT ![<<l, e[2]>>] = @ + 1]
        BY <3>3 DEF Shown
      <4>2. \A x \in Lives \ lost', c \in Channels : <<x, c>> # <<l, e[2]>>
        BY <3>3
      <4> HIDE DEF l, e
      <4> QED
        BY <1>1, <2>5, <3>1, <3>3, <4>1, <4>2
    <3> QED
      BY <1>6, <3>2, <3>3 DEF CrierStops
  <2>7. crier' \in Seq(Slugs \X Channels) /\ Len(crier') = 0 /\ DOMAIN crier' = {}
    BY <2>1, EmptySeq
  <2>8. ObituariesTypeOK'
    BY <2>1, <2>6, <2>7, ObituariesAssumption DEF ObituariesTypeOK
  <2>9. CrierInv'
    <3>1. \A s \in Slugs, c \in Channels : ledger'[<<s, c>>].posted => Out(s)'
      BY <2>1 DEF CrierInv, Out
    <3>2. \A x \in Lives \ lost', c \in Channels :
            /\ shown'[<<x, c>>] <= 1
            /\ shown'[<<x, c>>] = 1 =>
                 \E s \in Slugs : s[1] = x /\ ledger'[<<s, c>>].posted
      <4> SUFFICES ASSUME NEW x \in Lives \ lost', NEW c \in Channels
                   PROVE  /\ shown'[<<x, c>>] <= 1
                          /\ shown'[<<x, c>>] = 1 =>
                               \E s \in Slugs : s[1] = x /\ ledger'[<<s, c>>].posted
        OBVIOUS
      <4>1. x \in Lives \ lost /\ shown'[<<x, c>>] = shown[<<x, c>>]
        BY <2>6
      <4>2. /\ shown[<<x, c>>] <= 1
            /\ shown[<<x, c>>] = 1 =>
                 \E s \in Slugs : s[1] = x /\ ledger[<<s, c>>].posted
        BY <4>1 DEF CrierInv
      <4> QED
        BY <2>1, <4>1, <4>2
    <3> QED
      BY <2>7, <3>1, <3>2 DEF CrierInv
  <2> QED
    BY <2>1, <2>8, <2>9, ObituariesRest
<1> QED
  BY <1>2, <1>3, <1>4, <1>5, <1>6 DEF CrierNext

LEMMA ObituariesStep ==
  ASSUME ObituariesInv, ObituariesNext \/ UNCHANGED obituaryVars
  PROVE  ObituariesInv'
<1>1. CASE UNCHANGED obituaryVars
  <2>1. UNCHANGED <<deaths, names, articles, desk, ledger, crier, renames, faults, shown, lost>>
    BY <1>1 DEF obituaryVars
  <2>2. ObituariesTypeOK'
    BY <2>1 DEF ObituariesInv, ObituariesTypeOK
  <2> QED
    BY <2>1, <2>2, SamePosts, ObituariesRest DEF ObituariesInv
<1> QED
  BY <1>1, DieStep, RenameStep, DeskSteps, CrierSteps DEF ObituariesNext

LEMMA OnePostOfEach == ObituariesInv => OnePostPerDeath
<1> SUFFICES ASSUME ObituariesInv, NEW l \in Lives \ lost
             PROVE  /\ \A c \in Channels : shown[<<l, c>>] <= 1
                    /\ \A seq \in PublishedObituaries : \A i, j \in DOMAIN seq :
                         seq[i][1] = l /\ seq[j][1] = l => i = j
                    /\ \A s \in Slugs, c \in Channels :
                         s[1] = l /\ ledger[<<s, c>>].posted =>
                           Cardinality(ObituaryBySlug(s)) = 1
  BY DEF OnePostPerDeath
<1> USE DEF ObituariesInv
<1>1. \A c \in Channels : shown[<<l, c>>] <= 1
  BY DEF CrierInv
<1>2. ASSUME NEW seq \in PublishedObituaries, NEW i \in DOMAIN seq, NEW j \in DOMAIN seq,
             seq[i][1] = l, seq[j][1] = l
      PROVE  i = j
  <2>1. IsFiniteSet(Lives \X Names) /\ Published \subseteq Lives \X Names
    BY FS_Product, ObituariesAssumption DEF Published
  <2>2. IsFiniteSet(Published)
    BY <2>1, FS_Subset
  <2>3. seq[i] \in Published /\ seq[j] \in Published /\ (seq[i] = seq[j] => i = j)
    BY <2>2, RowsInOrder DEF PublishedObituaries
  <2> QED
    BY <1>2, <2>3 DEF OneObituary
<1>3. ASSUME NEW s \in Slugs, NEW c \in Channels, ledger[<<s, c>>].posted
      PROVE  Cardinality(ObituaryBySlug(s)) = 1
  <2>1. PICK k \in Published : k[1] = s[1] /\ articles[k].slug = s
    BY <1>3, RowOut DEF CrierInv
  <2>2. \A j \in ObituaryBySlug(s) : j \in Published /\ j[1] = s[1]
    BY DEF ObituaryBySlug, OneObituary
  <2>3. ObituaryBySlug(s) = {k}
    BY <2>1, <2>2 DEF ObituaryBySlug, OneObituary
  <2> QED
    BY <2>3, FS_Singleton
<1> QED
  BY <1>1, <1>2, <1>3


-----------------------------------------------------------------------------
\* Notices.

LEMMA LesserOfTwo ==
  ASSUME NEW a \in Int, NEW b \in Int
  PROVE  Min({a, b}) = IF a <= b THEN a ELSE b
<1>1. \E x \in {a, b} : \A y \in {a, b} : x <= y
  OBVIOUS
<1>2. Min({a, b}) \in {a, b} /\ \A y \in {a, b} : Min({a, b}) <= y
  BY <1>1 DEF Min
<1> QED
  BY <1>2

TickRow == [note : Notes, old : BOOLEAN]
Row == [id : Nat, owner : Accounts \cup {Nobody}, failures : 0 .. MaxFailures, on : BOOLEAN]

LEMMA EndpointRows ==
  ASSUME NoticesTypeOK
  PROVE  /\ rows \in [Endpoints -> Row] /\ NoRow \in Row
         /\ serial \in [Kinds -> Nat]
         /\ \A e \in Endpoints : /\ e[1] \in Kinds /\ serial[e[1]] \in Nat
                                 /\ rows[e] \in Row /\ rows[e].id \in Nat
                                 /\ rows[e].owner \in Accounts \cup {Nobody}
                                 /\ rows[e].failures \in Nat /\ rows[e].on \in BOOLEAN
                                 /\ strikes[e] \in Nat
         /\ \A t \in Recipient : /\ t.end \in Endpoints /\ t.id \in Nat
                                 /\ serial[t.end[1]] \in Nat
<1>1. rows \in [Endpoints -> Row] /\ serial \in [Kinds -> Nat]
  BY DEF NoticesTypeOK, Row
<1>2. NoRow \in Row
  BY NoticesAssumption DEF NoRow, Row
<1>3. \A e \in Endpoints : e[1] \in Kinds /\ serial[e[1]] \in Nat
  BY <1>1, NoticesAssumption
<1>4. \A e \in Endpoints : /\ rows[e] \in Row /\ rows[e].id \in Nat
                           /\ rows[e].owner \in Accounts \cup {Nobody}
                           /\ rows[e].failures \in Nat /\ rows[e].on \in BOOLEAN
  BY <1>1, NoticesAssumption DEF Row
<1>5. \A e \in Endpoints : strikes[e] \in Nat
  BY NoticesAssumption DEF NoticesTypeOK
<1>6. \A t \in Recipient : t.end \in Endpoints /\ t.id \in Nat /\ serial[t.end[1]] \in Nat
  BY <1>3 DEF Recipient
<1> QED
  BY <1>1, <1>2, <1>3, <1>4, <1>5, <1>6

LEMMA NoticesInitInv == NoticesInit => NoticesInv
<1> SUFFICES ASSUME NoticesInit PROVE NoticesInv
  OBVIOUS
<1>1. /\ inbox \in Seq(Notes) /\ IsInjective(inbox)
      /\ tick \in Seq([note : Notes, old : BOOLEAN]) /\ Len(tick) = 0
      /\ DOMAIN tick = {} /\ ToSet(inbox) = {}
  BY EmptySeq DEF NoticesInit, IsInjective, ToSet
<1>2. NoRow \in Row
  BY NoticesAssumption DEF NoRow, Row
<1>3. rows \in [Endpoints -> Row] /\ serial \in [Kinds -> Nat]
  BY <1>2 DEF NoticesInit
<1>4. NoticesTypeOK
  <2>1. age \in [Notes -> 0 .. MaxAge + 1] /\ pushFaults \in 0 .. MaxPushFaults
    BY NoticesAssumption DEF NoticesInit
  <2>2. strikes \in [Endpoints -> 0 .. MaxFailures]
    BY NoticesAssumption DEF NoticesInit
  <2>3. Len(tick) <= PushBatch
    BY <1>1, NoticesAssumption
  <2> QED
    BY <1>1, <1>3, <2>1, <2>2, <2>3 DEF NoticesInit, NoticesTypeOK, Row
<1>5. RowsKept
  BY DEF NoticesInit, RowsKept, Registered, NoRow
<1>6. HoldsOn /\ TickInv /\ StampedForCause
  BY <1>1 DEF NoticesInit, HoldsOn, TickInv, StampedForCause
<1> QED
  BY <1>4, <1>5, <1>6 DEF NoticesInv

\* Nothing is done to the rows.
LEMMA RowsRest ==
  ASSUME NoticesInv, UNCHANGED <<rowVars, dead>>, sends' \subseteq sends
  PROVE  RowsKept' /\ HoldsOn'
  BY DEF NoticesInv, rowVars, RowsKept, Registered, SameKey, SameRow, HoldsOn, HeldRow

LEMMA AgesStep ==
  ASSUME NoticesInv, Ages
  PROVE  NoticesInv'
<1> USE DEF NoticesInv
<1>1. /\ age' \in [Notes -> 0 .. MaxAge + 1]
      /\ \A n \in Notes : TooOld(n) => TooOld(n)'
  BY NoticesAssumption DEF Ages, NoticesTypeOK, TooOld
<1>2. NoticesTypeOK'
  BY <1>1 DEF Ages, NoticesTypeOK, rowVars, tickVars
<1>3. RowsKept' /\ HoldsOn'
  BY RowsRest DEF Ages, tickVars
<1>4. TickInv'
  <2>1. \A i \in DOMAIN tick : tick[i].note \in Notes
    <3>1. tick \in Seq(TickRow)
      BY DEF NoticesTypeOK, TickRow
    <3>2. \A i \in DOMAIN tick : tick[i] \in TickRow
      BY <3>1, ElementOfSeq, LenProperties
    <3> QED
      BY <3>2 DEF TickRow
  <2>2. \A i \in DOMAIN tick : tick[i].old => age'[tick[i].note] > MaxAge
    <3> SUFFICES ASSUME NEW i \in DOMAIN tick, tick[i].old
                 PROVE  age'[tick[i].note] > MaxAge
      OBVIOUS
    <3>1. PICK n \in Notes : n = tick[i].note
      BY <2>1
    <3>2. TooOld(n)
      BY <3>1 DEF TickInv
    <3>3. age'[n] > MaxAge
      BY <1>1, <3>2 DEF TooOld
    <3> QED
      BY <3>1, <3>3
  <2> QED
    BY <2>2 DEF Ages, tickVars, TickInv, Current, TooOld
<1>5. StampedForCause'
  <2>1. stamped \subseteq Notes
    BY DEF NoticesTypeOK, ToSet
  <2> QED
    BY <1>1, <2>1 DEF Ages, tickVars, StampedForCause, TooOld, Current
<1> QED
  BY <1>2, <1>3, <1>4, <1>5

LEMMA DiesStep ==
  ASSUME NoticesInv, NEW e \in Endpoints, Dies(e)
  PROVE  NoticesInv'
<1> USE DEF NoticesInv
<1>1. NoticesTypeOK'
  BY NoticesAssumption DEF Dies, NoticesTypeOK, rowVars, tickVars
<1>2. RowsKept' /\ HoldsOn'
  BY DEF Dies, rowVars, tickVars, RowsKept, Registered, SameKey, SameRow, HoldsOn, HeldRow
<1>3. pushFaults' > 0
  BY NoticesAssumption DEF Dies, NoticesTypeOK
<1>4. TickInv'
  BY <1>3 DEF Dies, tickVars, TickInv, Current, TooOld
<1>5. StampedForCause'
  BY <1>3 DEF Dies, tickVars, StampedForCause, Current
<1> QED
  BY <1>1, <1>2, <1>4, <1>5

LEMMA TickRests ==
  ASSUME NoticesInv,
         UNCHANGED <<inbox, age, stamped, tickVars, pushFaults, seen, dead, unreachable>>
  PROVE  TickInv' /\ StampedForCause'
  BY DEF NoticesInv, tickVars, TickInv, StampedForCause, Current, TooOld

\* Rows are taken away.
LEMMA FewerRows ==
  ASSUME NoticesInv, UNCHANGED serial, open' \subseteq open, sends' \subseteq sends,
         NEW gone \in SUBSET Endpoints,
         rows' = [e \in Endpoints |-> IF e \in gone THEN NoRow ELSE rows[e]],
         strikes' = strikes,
         gone \cap wanted' \subseteq dead' \cup reaped',
         wanted' \subseteq wanted, dead \subseteq dead', reaped \subseteq reaped'
  PROVE  RowsKept' /\ HoldsOn' /\ rows' \in [Endpoints -> Row]
<1> USE DEF NoticesInv
<1>1. \A e \in Endpoints : rows'[e] = IF e \in gone THEN NoRow ELSE rows[e]
  OBVIOUS
<1>2. \A e \in Endpoints : Registered(e)' => rows'[e] = rows[e] /\ Registered(e) /\ e \notin gone
  BY <1>1 DEF Registered, NoRow
<1>3. \A e \in Endpoints : \A t : SameRow(e, t)' => SameRow(e, t)
  BY <1>1 DEF SameRow, NoRow
<1>4. \A e \in Endpoints : Registered(e) /\ e \notin gone => Registered(e)'
  BY <1>1 DEF Registered
<1>5. rows' \in [Endpoints -> Row]
  BY EndpointRows
<1>6. ASSUME NEW e \in Endpoints, Registered(e)'
      PROVE  /\ rows'[e].id <= serial'[e[1]]
             /\ \A d \in Endpoints : Registered(d)' /\ SameKey(d, e)' => d = e
             /\ ~rows'[e].on => rows'[e].failures = MaxFailures
             /\ rows'[e].failures <= strikes'[e]
  <2>1. rows'[e] = rows[e] /\ Registered(e)
    BY <1>2, <1>6
  <2> QED
    BY <1>2, <2>1 DEF RowsKept, SameKey
<1>7. \A e \in wanted' \ (dead' \cup reaped') : Registered(e)'
  <2> SUFFICES ASSUME NEW e \in wanted' \ (dead' \cup reaped') PROVE Registered(e)'
    OBVIOUS
  <2>1. e \in Endpoints /\ Registered(e) /\ e \notin gone
    BY DEF RowsKept, NoticesTypeOK
  <2> QED
    BY <1>4, <2>1
<1>8. RowsKept'
  BY <1>6, <1>7 DEF RowsKept
<1>9. HoldsOn'
  BY <1>3 DEF HoldsOn, HeldRow
<1> QED
  BY <1>5, <1>8, <1>9

LEMMA ReapStep ==
  ASSUME NoticesInv, NEW r \in open, Reap(r)
  PROVE  NoticesInv'
<1> USE DEF NoticesInv
<1> DEFINE gone == {e \in Endpoints : /\ e[1] = "device" /\ e # r[2].end
                                     /\ rows[e].owner = r[1]}
<1>1. /\ open' = open \ {r}
      /\ rows' = [e \in Endpoints |-> IF e \in gone THEN NoRow ELSE rows[e]]
      /\ reaped' = reaped \cup {e \in gone : rows[e].id > r[2].id}
      /\ wanted' = wanted \ {e \in gone : rows[e].id < r[2].id}
      /\ UNCHANGED <<inbox, age, stamped, serial, tickVars, pushFaults, seen,
                     strikes, dead, unreachable>>
  BY DEF Reap
<1>2. r \in Accounts \X Recipient
  BY DEF NoticesTypeOK
<1>3. r[1] \in Accounts /\ r[2] \in Recipient
  BY <1>2
<1>4. \A e \in gone : e \in Endpoints /\ rows[e].id \in Nat /\ rows[e].id # r[2].id
  <2> SUFFICES ASSUME NEW e \in gone, rows[e].id = r[2].id PROVE FALSE
    BY EndpointRows
  <2>1. rows[e].owner # Nobody
    BY <1>3, NoticesAssumption
  <2>2. e[1] = r[2].end[1]
    BY DEF HoldsOn
  <2>3. SameRow(e, r[2])
    BY <2>1, <2>2 DEF SameRow
  <2> QED
    BY <2>3 DEF HoldsOn, HeldRow
<1>5. r[2].id \in Nat
  BY <1>3, EndpointRows
<1> HIDE DEF gone
<1>6. gone \cap wanted' \subseteq dead' \cup reaped'
  BY <1>1, <1>4, <1>5
<1>7. gone \in SUBSET Endpoints
  BY <1>4
<1>8. sends' = sends
  BY <1>1 DEF tickVars
<1>9. RowsKept' /\ HoldsOn' /\ rows' \in [Endpoints -> Row]
  <2> HIDE DEF NoticesInv
  <2> QED
    BY <1>1, <1>6, <1>7, <1>8, FewerRows
<1>10. NoticesTypeOK'
  BY <1>1, <1>7, <1>9 DEF NoticesTypeOK, tickVars, Row
<1>11. TickInv' /\ StampedForCause'
  BY <1>1, TickRests
<1> QED
  BY <1>9, <1>10, <1>11

LEMMA UnregisterStep ==
  ASSUME NoticesInv, NEW u \in Accounts, NEW e \in Endpoints, Unregister(u, e)
  PROVE  NoticesInv'
<1>1. /\ rows' = [d \in Endpoints |-> IF d \in {e} THEN NoRow ELSE rows[d]]
      /\ wanted' = wanted \ {e}
      /\ UNCHANGED <<inbox, age, stamped, serial, open, tickVars, pushFaults, seen,
                     strikes, dead, reaped, unreachable>>
  <2>1. rows \in [Endpoints -> Row] /\ rows' = [rows EXCEPT ![e] = NoRow]
    BY EndpointRows DEF NoticesInv, Unregister
  <2> QED
    BY <2>1 DEF Unregister
<1>2. sends' = sends
  BY <1>1 DEF tickVars
<1>3. RowsKept' /\ HoldsOn' /\ rows' \in [Endpoints -> Row]
  BY <1>1, <1>2, FewerRows
<1>4. NoticesTypeOK'
  BY <1>1, <1>3 DEF NoticesInv, NoticesTypeOK, tickVars, Row
<1> QED
  BY <1>1, <1>3, <1>4, TickRests DEF NoticesInv

LEMMA RegisterStep ==
  ASSUME NoticesInv, NEW u \in Accounts, NEW e \in Endpoints, Register(u, e)
  PROVE  NoticesInv'
<1> USE DEF NoticesInv
<1> DEFINE kind == e[1]
           id == IF rows[e].owner = Nobody THEN serial[kind] + 1 ELSE rows[e].id
           row == [id |-> id, owner |-> u, failures |-> 0, on |-> TRUE]
<1> PICK held : held = [end |-> e, id |-> id]
  OBVIOUS
<1>1. /\ rows' = [rows EXCEPT ![e] = row]
      /\ serial' = [serial EXCEPT ![kind] = @ + 1]
      /\ open' = IF kind = "device" THEN open \cup {<<u, held>>} ELSE open
      /\ strikes' = [strikes EXCEPT ![e] = 0]
      /\ wanted' = wanted \cup {e} /\ reaped' = reaped \ {e}
      /\ UNCHANGED <<inbox, age, stamped, tickVars, pushFaults, seen, dead, unreachable>>
  BY DEF Register
<1>2. kind \in Kinds /\ serial[kind] \in Nat /\ rows[e].id \in Nat
  BY EndpointRows
<1>3. id \in Nat /\ row \in Row /\ row.owner # Nobody /\ id <= serial[kind] + 1
  <2>1. id \in Nat
    BY <1>2
  <2>2. row \in Row /\ row.owner # Nobody
    BY <2>1, NoticesAssumption DEF Row
  <2>3. id <= serial[kind] + 1
    BY <1>2 DEF RowsKept, Registered
  <2> QED
    BY <2>1, <2>2, <2>3
<1>4. \A d \in Endpoints : d # e /\ d[1] = kind /\ rows[d].owner # Nobody => rows[d].id # id
  <2> SUFFICES ASSUME NEW d \in Endpoints, d # e, d[1] = kind, rows[d].owner # Nobody,
                      rows[d].id = id
               PROVE  FALSE
    OBVIOUS
  <2>1. rows[d].id \in Nat /\ rows[d].id <= serial[kind]
    BY EndpointRows DEF RowsKept, Registered
  <2>2. rows[e].owner # Nobody /\ rows[d].id = rows[e].id
    BY <1>2, <2>1
  <2> QED
    BY <2>2 DEF RowsKept, Registered, SameKey
<1>5. /\ rows' \in [Endpoints -> Row] /\ rows'[e] = row
      /\ \A d \in Endpoints : d # e => rows'[d] = rows[d]
  BY <1>1, <1>3, EndpointRows
<1>6. /\ serial' \in [Kinds -> Nat] /\ serial'[kind] = serial[kind] + 1
      /\ \A k \in Kinds : serial[k] \in Nat /\ serial'[k] \in Nat /\ serial[k] <= serial'[k]
  BY <1>1, <1>2, EndpointRows
<1>7. /\ strikes' \in [Endpoints -> 0 .. MaxFailures] /\ strikes'[e] = 0
      /\ \A d \in Endpoints : d # e => strikes'[d] = strikes[d]
  BY <1>1, NoticesAssumption DEF NoticesTypeOK
<1>8. held \in Recipient /\ held.end = e /\ held.id = id
  BY <1>3 DEF Recipient
<1>9. row.id = id /\ row.failures = 0 /\ row.on
  OBVIOUS
<1> HIDE DEF id, row
<1>10. NoticesTypeOK'
  <2>1. open' \subseteq Accounts \X Recipient
    BY <1>1, <1>8 DEF NoticesTypeOK
  <2> HIDE DEF kind
  <2> QED
    BY <1>1, <1>5, <1>6, <1>7, <2>1 DEF NoticesTypeOK, tickVars, Row
<1>11. ASSUME NEW t \in Recipient, HeldRow(t)
       PROVE  HeldRow(t)'
  <2>1. t.end \in Endpoints /\ t.id \in Nat /\ t.end[1] \in Kinds
    BY EndpointRows
  <2>2. t.id <= serial[t.end[1]] /\ t.id <= serial'[t.end[1]]
    BY <1>6, <1>11, <2>1 DEF HeldRow
  <2>3. ASSUME SameRow(e, t)' PROVE e = t.end
    <3>1. id = t.id /\ kind = t.end[1]
      BY <1>5, <1>9, <2>3 DEF SameRow
    <3>2. rows[e].owner # Nobody /\ rows[e].id = t.id
      BY <1>2, <2>1, <2>2, <3>1 DEF id
    <3>3. SameRow(e, t)
      BY <3>1, <3>2 DEF SameRow
    <3> QED
      BY <1>11, <3>3 DEF HeldRow
  <2>4. \A d \in Endpoints : SameRow(d, t)' => d = t.end
    BY <1>5, <1>11, <2>3 DEF SameRow, HeldRow
  <2> QED
    BY <2>2, <2>4 DEF HeldRow
<1>12. \A d \in Endpoints : SameRow(d, held)' => d = e
  <2> SUFFICES ASSUME NEW d \in Endpoints, SameRow(d, held)', d # e PROVE FALSE
    OBVIOUS
  <2>1. rows[d].owner # Nobody /\ rows[d].id = id /\ d[1] = kind
    BY <1>5, <1>8 DEF SameRow
  <2> QED
    BY <1>4, <2>1
<1>13. HeldRow(held)'
  BY <1>3, <1>6, <1>8, <1>12 DEF HeldRow
<1>14. HoldsOn'
  <2>1. sends' = sends /\ sends \subseteq Recipient
    BY <1>1 DEF tickVars, NoticesTypeOK
  <2>2. \A r \in open : r[2] \in Recipient
    BY DEF NoticesTypeOK
  <2>3. \A t \in sends' : HeldRow(t)'
    BY <1>11, <2>1 DEF HoldsOn
  <2>4. ASSUME NEW r \in open' PROVE HeldRow(r[2])' /\ r[2].end[1] = "device"
    <3>1. CASE r \in open
      BY <1>11, <2>2, <3>1 DEF HoldsOn
    <3>2. CASE r \notin open
      <4>1. r = <<u, held>> /\ kind = "device"
        BY <1>1, <3>2
      <4> QED
        BY <1>8, <1>13, <4>1
    <3> QED
      BY <3>1, <3>2
  <2> QED
    BY <2>3, <2>4 DEF HoldsOn
<1>15. RowsKept'
  <2>1. ASSUME NEW d \in Endpoints, Registered(d)'
        PROVE  /\ rows'[d].id <= serial'[d[1]]
               /\ \A x \in Endpoints : Registered(x)' /\ SameKey(x, d)' => x = d
               /\ ~rows'[d].on => rows'[d].failures = MaxFailures
               /\ rows'[d].failures <= strikes'[d]
    <3>1. CASE d = e
      <4>1. \A x \in Endpoints : Registered(x)' /\ SameKey(x, d)' => x = d
        BY <1>4, <1>5, <1>9, <3>1 DEF Registered, SameKey
      <4> QED
        BY <1>3, <1>5, <1>6, <1>7, <1>9, <3>1, <4>1
    <3>2. CASE d # e
      <4>1. rows'[d] = rows[d] /\ strikes'[d] = strikes[d] /\ Registered(d)
        BY <1>5, <1>7, <2>1, <3>2 DEF Registered
      <4>2. ASSUME NEW x \in Endpoints, Registered(x)', SameKey(x, d)' PROVE x = d
        <5>1. CASE x = e
          BY <1>4, <1>5, <1>9, <3>2, <4>1, <4>2, <5>1 DEF Registered, SameKey
        <5>2. CASE x # e
          BY <1>5, <4>1, <4>2, <5>2 DEF RowsKept, Registered, SameKey
        <5> QED
          BY <5>1, <5>2
      <4>3. rows'[d].id <= serial'[d[1]]
        BY <1>6, <4>1, EndpointRows DEF RowsKept
      <4> QED
        BY <4>1, <4>2, <4>3 DEF RowsKept
    <3> QED
      BY <3>1, <3>2
  <2>2. \A d \in wanted' \ (dead' \cup reaped') : Registered(d)'
    <3> SUFFICES ASSUME NEW d \in wanted' \ (dead' \cup reaped') PROVE Registered(d)'
      OBVIOUS
    <3>1. d = e \/ d \in wanted \ (dead \cup reaped)
      BY <1>1
    <3>2. wanted \subseteq Endpoints
      BY DEF NoticesTypeOK
    <3> QED
      BY <1>3, <1>5, <3>1, <3>2 DEF RowsKept, Registered
  <2> QED
    BY <2>1, <2>2 DEF RowsKept
<1>16. TickInv' /\ StampedForCause'
  BY <1>1, TickRests
<1> QED
  BY <1>10, <1>14, <1>15, <1>16


LEMMA GenerateStep ==
  ASSUME NoticesInv, NEW news \in SUBSET Notes, Generate(news)
  PROVE  NoticesInv'
<1> USE DEF NoticesInv
<1>1. PICK order \in SetToSeqs(news) : inbox' = inbox \o order
  BY DEF Generate
<1>2. /\ news \cap ToSet(inbox) = {}
      /\ UNCHANGED <<age, stamped, rowVars, tickVars, pushFaults, seen, dead, unreachable>>
  BY DEF Generate
<1>3. IsFiniteSet(news)
  BY NoticesAssumption, FS_Subset
<1>4. /\ order \in Seq(news) /\ DOMAIN order = 1 .. Len(order) /\ Len(order) \in Nat
      /\ \A i \in DOMAIN order : order[i] \in news
      /\ \A i, j \in DOMAIN order : order[i] = order[j] => i = j
  BY <1>3, RowsInOrder, LenProperties
<1>5. /\ inbox \in Seq(Notes) /\ Len(inbox) \in Nat /\ DOMAIN inbox = 1 .. Len(inbox)
      /\ \A i, j \in DOMAIN inbox : inbox[i] = inbox[j] => i = j
  BY LenProperties DEF NoticesTypeOK, IsInjective
<1>6. order \in Seq(Notes)
  BY <1>4, IsASeq
<1>7. /\ inbox' \in Seq(Notes) /\ Len(inbox') = Len(inbox) + Len(order)
      /\ DOMAIN inbox' = 1 .. Len(inbox) + Len(order)
      /\ \A i \in DOMAIN inbox' :
           inbox'[i] = IF i <= Len(inbox) THEN inbox[i] ELSE order[i - Len(inbox)]
  BY <1>1, <1>5, <1>6, ConcatProperties, LenProperties
<1>8. \A i \in DOMAIN inbox : inbox[i] \notin news
  BY <1>2 DEF ToSet
<1>9. IsInjective(inbox')
  <2> SUFFICES ASSUME NEW i \in DOMAIN inbox', NEW j \in DOMAIN inbox', inbox'[i] = inbox'[j]
               PROVE  i = j
    BY DEF IsInjective
  <2>1. CASE i <= Len(inbox) /\ j <= Len(inbox)
    BY <1>5, <1>7, <2>1
  <2>2. CASE i > Len(inbox) /\ j > Len(inbox)
    <3>1. i - Len(inbox) \in DOMAIN order /\ j - Len(inbox) \in DOMAIN order
      BY <1>4, <1>5, <1>7, <2>2
    <3>2. order[i - Len(inbox)] = order[j - Len(inbox)]
      BY <1>5, <1>7, <2>2
    <3>3. i - Len(inbox) = j - Len(inbox)
      BY <1>4, <3>1, <3>2
    <3> QED
      BY <1>5, <1>7, <3>3
  <2>3. CASE i <= Len(inbox) /\ j > Len(inbox)
    <3>1. j - Len(inbox) \in DOMAIN order /\ i \in DOMAIN inbox
      BY <1>4, <1>5, <1>7, <2>3
    <3>2. inbox[i] = order[j - Len(inbox)]
      BY <1>5, <1>7, <2>3
    <3> QED
      BY <1>4, <1>8, <3>1, <3>2
  <2>4. CASE i > Len(inbox) /\ j <= Len(inbox)
    <3>1. i - Len(inbox) \in DOMAIN order /\ j \in DOMAIN inbox
      BY <1>4, <1>5, <1>7, <2>4
    <3>2. inbox[j] = order[i - Len(inbox)]
      BY <1>5, <1>7, <2>4
    <3> QED
      BY <1>4, <1>8, <3>1, <3>2
  <2> QED
    BY <1>5, <1>7, <2>1, <2>2, <2>3, <2>4
<1>10. ToSet(inbox) \subseteq ToSet(inbox')
  <2> SUFFICES ASSUME NEW i \in DOMAIN inbox PROVE \E j \in DOMAIN inbox' : inbox'[j] = inbox[i]
    BY DEF ToSet
  <2>1. i \in DOMAIN inbox' /\ inbox'[i] = inbox[i]
    BY <1>4, <1>5, <1>7
  <2> QED
    BY <2>1
<1>11. NoticesTypeOK'
  BY <1>2, <1>7, <1>9, <1>10 DEF NoticesTypeOK, rowVars, tickVars
<1>12. RowsKept' /\ HoldsOn'
  <2>1. sends' = sends
    BY <1>2 DEF tickVars
  <2> QED
    BY <1>2, <2>1, RowsRest
<1>13. TickInv' /\ StampedForCause'
  BY <1>2, <1>10 DEF tickVars, TickInv, StampedForCause, Current, TooOld
<1> QED
  BY <1>11, <1>12, <1>13

LEMMA ReadUnpushedStep ==
  ASSUME NoticesInv, ReadUnpushed
  PROVE  NoticesInv'
<1> USE DEF NoticesInv
<1> DEFINE S == {i \in DOMAIN inbox : inbox[i] \notin stamped}
           row(i) == [note |-> inbox[i], old |-> TooOld(inbox[i])]
<1>1. PICK order \in SetToSeqs(S) :
        LET n == IF Len(order) < PushBatch THEN Len(order) ELSE PushBatch
        IN  tick' = [i \in 1 .. n |-> row(order[i])]
  BY DEF ReadUnpushed
<1>2. /\ tick = <<>>
      /\ UNCHANGED <<inbox, age, stamped, rowVars, sends, reading, delivered,
                     pushFaults, seen, dead, unreachable>>
  BY DEF ReadUnpushed
<1>3. /\ DOMAIN inbox = 1 .. Len(inbox) /\ Len(inbox) \in Nat
      /\ \A i \in DOMAIN inbox : inbox[i] \in Notes
      /\ \A i, j \in DOMAIN inbox : inbox[i] = inbox[j] => i = j
  <2>1. inbox \in Seq(Notes) /\ IsInjective(inbox)
    BY DEF NoticesTypeOK
  <2>2. Len(inbox) \in Nat /\ DOMAIN inbox = 1 .. Len(inbox)
    BY <2>1, LenProperties
  <2>3. \A i \in DOMAIN inbox : inbox[i] \in Notes
    BY <2>1, <2>2, ElementOfSeq
  <2> QED
    BY <2>1, <2>2, <2>3 DEF IsInjective
<1>4. IsFiniteSet(S)
  <2>1. S \subseteq 1 .. Len(inbox) /\ Len(inbox) \in Int
    BY <1>3
  <2>2. IsFiniteSet(1 .. Len(inbox))
    BY <2>1, FS_Interval
  <2> HIDE DEF S
  <2> QED
    BY <2>1, <2>2, FS_Subset
<1>5. \A i \in S : i \in DOMAIN inbox /\ inbox[i] \in ToSet(inbox) \ stamped
  BY DEF ToSet
<1> HIDE DEF S
<1>6. /\ DOMAIN order = 1 .. Len(order) /\ Len(order) \in Nat
      /\ \A i \in DOMAIN order : order[i] \in S
      /\ \A i, j \in DOMAIN order : order[i] = order[j] => i = j
  BY <1>4, RowsInOrder, LenProperties
<1> DEFINE n == IF Len(order) < PushBatch THEN Len(order) ELSE PushBatch
<1>7. n \in Nat /\ n <= PushBatch /\ 1 .. n \subseteq DOMAIN order
  BY <1>6, NoticesAssumption
<1>8. tick' = [i \in 1 .. n |-> row(order[i])]
  BY <1>1
<1> HIDE DEF n
<1>9. \A i \in 1 .. n : /\ order[i] \in DOMAIN inbox /\ row(order[i]) \in TickRow
                        /\ inbox[order[i]] \in ToSet(inbox) \ stamped
  <2> SUFFICES ASSUME NEW i \in 1 .. n
               PROVE  /\ order[i] \in DOMAIN inbox /\ row(order[i]) \in TickRow
                      /\ inbox[order[i]] \in ToSet(inbox) \ stamped
    OBVIOUS
  <2>1. order[i] \in DOMAIN inbox /\ inbox[order[i]] \in ToSet(inbox) \ stamped
    BY <1>5, <1>6, <1>7
  <2>2. TooOld(inbox[order[i]]) \in BOOLEAN
    BY DEF TooOld
  <2> QED
    BY <1>3, <2>1, <2>2 DEF TickRow
<1>10. tick' \in Seq(TickRow)
  BY <1>7, <1>8, <1>9, IsASeq
<1>11. /\ DOMAIN tick' = 1 .. n /\ Len(tick') = n
       /\ \A i \in DOMAIN tick' : /\ tick'[i].note = inbox[order[i]]
                                  /\ tick'[i].old = TooOld(inbox[order[i]])
  BY <1>7, <1>8, <1>10, LenProperties
<1>12. NoticesTypeOK'
  BY <1>2, <1>7, <1>10, <1>11 DEF NoticesTypeOK, rowVars, TickRow
<1>13. RowsKept' /\ HoldsOn'
  BY <1>2, RowsRest
<1>14. TickInv'
  <2>1. \A i \in DOMAIN tick' :
          /\ tick'[i].note \in ToSet(inbox) \ stamped
          /\ tick'[i].old => TooOld(tick'[i].note)
          /\ \A j \in DOMAIN tick' : tick'[i].note = tick'[j].note => i = j
    <3> SUFFICES ASSUME NEW i \in DOMAIN tick'
                 PROVE  /\ tick'[i].note \in ToSet(inbox) \ stamped
                        /\ tick'[i].old => TooOld(tick'[i].note)
                        /\ \A j \in DOMAIN tick' : tick'[i].note = tick'[j].note => i = j
      OBVIOUS
    <3>1. \A j \in DOMAIN tick' : /\ j \in DOMAIN order /\ order[j] \in DOMAIN inbox
                                  /\ tick'[j].note = inbox[order[j]]
      BY <1>7, <1>9, <1>11
    <3>2. \A j \in DOMAIN tick' : tick'[i].note = tick'[j].note => i = j
      BY <1>3, <1>6, <3>1
    <3>3. tick'[i].note \in ToSet(inbox) \ stamped
      BY <1>9, <1>11
    <3>4. tick'[i].old => TooOld(tick'[i].note)
      BY <1>11
    <3> QED
      BY <3>2, <3>3, <3>4
  <2>2. ~reading /\ sends = {} /\ ~delivered
    BY <1>2 DEF TickInv
  <2> QED
    BY <1>2, <2>1, <2>2 DEF TickInv, TooOld
<1>15. StampedForCause'
  <2>1. ~reading
    BY <1>2 DEF TickInv
  <2> QED
    BY <1>2, <2>1 DEF StampedForCause
<1> QED
  BY <1>12, <1>13, <1>14, <1>15

LEMMA HeadOfTick ==
  ASSUME NoticesInv, tick # <<>>
  PROVE  /\ tick \in Seq(TickRow) /\ Head(tick) \in TickRow /\ Current \in Notes
         /\ Current \in ToSet(inbox) \ stamped
         /\ Head(tick).old => TooOld(Current)
         /\ Tail(tick) \in Seq(TickRow) /\ Len(Tail(tick)) <= PushBatch
         /\ \A i \in DOMAIN Tail(tick) :
              /\ Tail(tick)[i].note \in ToSet(inbox) \ (stamped \cup {Current})
              /\ Tail(tick)[i].old => TooOld(Tail(tick)[i].note)
              /\ \A j \in DOMAIN Tail(tick) : Tail(tick)[i].note = Tail(tick)[j].note => i = j
<1>1. tick \in Seq(TickRow) /\ Len(tick) <= PushBatch /\ Len(tick) \in Nat
  BY LenProperties DEF NoticesInv, NoticesTypeOK, TickRow
<1>2. /\ Tail(tick) \in Seq(TickRow) /\ Len(Tail(tick)) <= Len(tick)
      /\ 1 \in DOMAIN tick /\ Head(tick) = tick[1] /\ tick[1] \in TickRow
      /\ \A i \in DOMAIN Tail(tick) : /\ i \in Nat \ {0} /\ i + 1 \in DOMAIN tick
                                      /\ Tail(tick)[i] = tick[i + 1]
  BY <1>1, RestOfBatch
<1>3. Current = tick[1].note
  BY <1>2 DEF Current
<1>4. \A i \in DOMAIN Tail(tick) : Tail(tick)[i].note # Current
  BY <1>2, <1>3 DEF NoticesInv, TickInv
<1>5. Len(Tail(tick)) <= PushBatch
  BY <1>1, <1>2, LenProperties, NoticesAssumption
<1>6. Current \in Notes
  BY <1>2, <1>3 DEF TickRow
<1> QED
  BY <1>1, <1>2, <1>3, <1>4, <1>5, <1>6 DEF NoticesInv, TickInv

\* The notifier is done with the first of the batch.
LEMMA TurnEnds ==
  ASSUME NoticesInv, tick # <<>>, tick' = Tail(tick),
         stamped' \subseteq stamped \cup {Current}, stamped \subseteq stamped',
         unreachable' \subseteq unreachable \cup {Current}, unreachable \subseteq unreachable',
         Current \in stamped' => Current \in seen \cup unreachable' \/ TooOld(Current),
         Current \in seen \ stamped' => pushFaults > 0,
         sends = {}, sends' = {}, reading' = FALSE, delivered' = FALSE,
         UNCHANGED <<inbox, age, rowVars, pushFaults, seen, dead>>
  PROVE  NoticesInv'
<1> USE DEF NoticesInv
<1>1. NoticesTypeOK'
  BY HeadOfTick DEF NoticesTypeOK, rowVars, TickRow
<1>2. RowsKept' /\ HoldsOn'
  BY RowsRest
<1>3. TickInv'
  <2>1. \A i \in DOMAIN tick' :
          /\ tick'[i].note \in ToSet(inbox) \ stamped'
          /\ tick'[i].old => TooOld(tick'[i].note)
          /\ \A j \in DOMAIN tick' : tick'[i].note = tick'[j].note => i = j
    BY HeadOfTick
  <2> QED
    BY <2>1 DEF TickInv, TooOld
<1>4. StampedForCause'
  BY DEF StampedForCause, TooOld
<1> QED
  BY <1>1, <1>2, <1>3, <1>4

LEMMA SkipStep ==
  ASSUME NoticesInv, Skip
  PROVE  NoticesInv'
<1>1. /\ tick # <<>> /\ ~reading /\ tick' = Tail(tick)
      /\ stamped' = stamped \cup {Current}
      /\ unreachable' = IF Head(tick).old THEN unreachable ELSE unreachable \cup {Current}
      /\ UNCHANGED <<inbox, age, rowVars, sends, reading, delivered, pushFaults, seen, dead>>
  BY DEF Skip
<1>2. sends = {} /\ ~delivered
  BY <1>1 DEF NoticesInv, TickInv
<1>3. reading' = FALSE /\ delivered' = FALSE
  BY <1>1, <1>2 DEF NoticesInv, NoticesTypeOK
<1>4. Current \in unreachable' \/ TooOld(Current)
  BY <1>1, HeadOfTick
<1> QED
  BY <1>1, <1>2, <1>3, <1>4, TurnEnds

LEMMA RowDoneStep ==
  ASSUME NoticesInv, RowDone
  PROVE  NoticesInv'
<1>1. /\ reading /\ sends = {} /\ stamped' = Outcome
      /\ tick' = Tail(tick) /\ reading' = FALSE /\ delivered' = FALSE
      /\ UNCHANGED <<inbox, age, rowVars, sends, pushFaults, seen, dead, unreachable>>
  BY DEF RowDone
<1>2. tick # <<>>
  BY <1>1 DEF NoticesInv, TickInv
<1>3. Current \notin stamped
  BY <1>2, HeadOfTick
<1>4. Current \in stamped' => Current \in seen
  BY <1>1, <1>3 DEF Outcome, NoticesInv, TickInv
<1>5. Current \in seen \ stamped' => pushFaults > 0
  BY <1>1 DEF Outcome, NoticesInv, TickInv
<1>6. stamped \subseteq stamped' /\ stamped' \subseteq stamped \cup {Current}
  BY <1>1 DEF Outcome
<1> QED
  BY <1>1, <1>2, <1>4, <1>5, <1>6, TurnEnds

LEMMA ReadRowsStep ==
  ASSUME NoticesInv, ReadRows
  PROVE  NoticesInv'
<1> USE DEF NoticesInv
<1>1. /\ tick # <<>> /\ ~reading /\ ~Head(tick).old
      /\ sends' = ActiveRows(OwnerOf[Current]) /\ reading' = TRUE /\ delivered' = FALSE
      /\ UNCHANGED <<inbox, age, stamped, rowVars, tick, pushFaults, seen, dead, unreachable>>
  BY DEF ReadRows
<1>2. OwnerOf[Current] # Nobody
  BY <1>1, HeadOfTick, NoticesAssumption
<1>3. ASSUME NEW t \in sends'
      PROVE  t \in Recipient /\ HeldRow(t)
  <2>1. PICK e \in Endpoints : /\ rows[e].owner = OwnerOf[Current]
                               /\ t = [end |-> e, id |-> rows[e].id]
    BY <1>1, <1>3 DEF ActiveRows
  <2>2. Registered(e)
    BY <1>2, <2>1 DEF Registered
  <2>3. t \in Recipient /\ t.end = e /\ t.id = rows[e].id
    BY <2>1, EndpointRows DEF Recipient
  <2> QED
    BY <2>1, <2>2, <2>3 DEF RowsKept, HeldRow, SameRow, Registered, SameKey
<1>4. NoticesTypeOK'
  BY <1>1, <1>3 DEF NoticesTypeOK, rowVars
<1>5. RowsKept'
  BY <1>1 DEF rowVars, RowsKept, Registered, SameKey
<1>6. HoldsOn'
  BY <1>1, <1>3 DEF rowVars, HoldsOn, HeldRow, SameRow
<1>7. Current \in seen => pushFaults > 0
  BY <1>1, HeadOfTick DEF StampedForCause
<1>8. TickInv'
  BY <1>1, <1>7 DEF TickInv, Current, TooOld
<1>9. StampedForCause'
  BY <1>1 DEF StampedForCause
<1> QED
  BY <1>4, <1>5, <1>6, <1>8, <1>9

LEMMA NotifierStopsStep ==
  ASSUME NoticesInv, NotifierStops
  PROVE  NoticesInv'
<1> USE DEF NoticesInv
<1>1. /\ pushFaults < MaxPushFaults /\ pushFaults' = pushFaults + 1
      /\ tick' = <<>> /\ sends' = {} /\ reading' = FALSE /\ delivered' = FALSE
      /\ UNCHANGED <<inbox, age, stamped, rowVars, seen, dead, unreachable>>
  BY DEF NotifierStops
<1>2. tick' \in Seq(TickRow) /\ Len(tick') = 0 /\ DOMAIN tick' = {}
  BY <1>1, EmptySeq
<1>3. pushFaults' \in 0 .. MaxPushFaults /\ pushFaults' > 0
  BY <1>1, NoticesAssumption DEF NoticesTypeOK
<1>4. NoticesTypeOK'
  <2>1. Len(tick') <= PushBatch
    BY <1>2, NoticesAssumption
  <2> QED
    BY <1>1, <1>2, <1>3, <2>1 DEF NoticesTypeOK, rowVars, TickRow
<1>5. RowsKept' /\ HoldsOn'
  BY <1>1, RowsRest
<1>6. TickInv'
  BY <1>1, <1>2 DEF TickInv
<1>7. StampedForCause'
  BY <1>1, <1>3 DEF StampedForCause
<1> QED
  BY <1>4, <1>5, <1>6, <1>7

-----------------------------------------------------------------------------
\* A send.

LEMMA WeakenedRow ==
  ASSUME NEW row \in Row
  PROVE  /\ Weakened(row) \in Row
         /\ Weakened(row).id = row.id /\ Weakened(row).owner = row.owner
         /\ Weakened(row).failures = IF row.failures < MaxFailures THEN row.failures + 1
                                                                   ELSE MaxFailures
         /\ ~Weakened(row).on => ~row.on \/ Weakened(row).failures = MaxFailures
<1>1. row.failures \in 0 .. MaxFailures /\ MaxFailures \in Nat
  BY NoticesAssumption DEF Row
<1>2. row.failures + 1 \in Int /\ MaxFailures \in Int
  BY <1>1
<1> DEFINE m == Min({row.failures + 1, MaxFailures})
<1>3. m = IF row.failures + 1 <= MaxFailures THEN row.failures + 1 ELSE MaxFailures
  BY <1>2, LesserOfTwo
<1> HIDE DEF m
<1>4. m \in 0 .. MaxFailures
  BY <1>1, <1>3
<1>5. Weakened(row) = [row EXCEPT !.failures = m, !.on = @ /\ row.failures + 1 < MaxFailures]
  BY DEF Weakened, m
<1>6. /\ Weakened(row) \in Row /\ Weakened(row).id = row.id
      /\ Weakened(row).owner = row.owner /\ Weakened(row).failures = m
      /\ Weakened(row).on <=> row.on /\ row.failures + 1 < MaxFailures
  BY <1>4, <1>5 DEF Row
<1>7. m = IF row.failures < MaxFailures THEN row.failures + 1 ELSE MaxFailures
  BY <1>1, <1>3
<1>8. ~(row.failures + 1 < MaxFailures) => m = MaxFailures
  BY <1>1, <1>3
<1> QED
  BY <1>6, <1>7, <1>8

\* A failure is counted at the row of the endpoint, if that has one still.
LEMMA FailureCounts ==
  ASSUME NoticesInv, NEW t \in sends, sends' = sends \ {t}, RecordFailure(t), Struck(t.end),
         UNCHANGED <<serial, open, wanted, reaped, dead>>
  PROVE  /\ rows' \in [Endpoints -> Row] /\ strikes' \in [Endpoints -> 0 .. MaxFailures]
         /\ RowsKept' /\ HoldsOn'
<1> USE DEF NoticesInv
<1>1. /\ t \in Recipient /\ t.end \in Endpoints
      /\ \A e \in Endpoints : SameRow(e, t) => e = t.end
  BY EndpointRows DEF HoldsOn, HeldRow, NoticesTypeOK
<1>2. /\ rows' = [e \in Endpoints |-> IF SameRow(e, t) THEN Weakened(rows[e]) ELSE rows[e]]
      /\ rows \in [Endpoints -> Row]
  BY EndpointRows DEF RecordFailure
<1>3. \A e \in Endpoints :
        /\ rows'[e] \in Row
        /\ rows'[e].id = rows[e].id /\ rows'[e].owner = rows[e].owner
        /\ e # t.end => rows'[e] = rows[e]
        /\ \/ rows'[e] = rows[e]
           \/ /\ rows'[e].failures = IF rows[e].failures < MaxFailures
                                     THEN rows[e].failures + 1 ELSE MaxFailures
              /\ ~rows'[e].on => ~rows[e].on \/ rows'[e].failures = MaxFailures
  <2> SUFFICES ASSUME NEW e \in Endpoints
               PROVE  /\ rows'[e] \in Row
                      /\ rows'[e].id = rows[e].id /\ rows'[e].owner = rows[e].owner
                      /\ e # t.end => rows'[e] = rows[e]
                      /\ \/ rows'[e] = rows[e]
                         \/ /\ rows'[e].failures = IF rows[e].failures < MaxFailures
                                                   THEN rows[e].failures + 1 ELSE MaxFailures
                            /\ ~rows'[e].on => ~rows[e].on \/ rows'[e].failures = MaxFailures
    OBVIOUS
  <2>1. rows[e] \in Row
    BY <1>2
  <2>2. CASE SameRow(e, t)
    <3>1. rows'[e] = Weakened(rows[e]) /\ e = t.end
      BY <1>1, <1>2, <2>2
    <3> QED
      BY <2>1, <3>1, WeakenedRow
  <2>3. CASE ~SameRow(e, t)
    BY <1>2, <2>1, <2>3
  <2> QED
    BY <2>2, <2>3
<1>4. rows' \in [Endpoints -> Row]
  BY <1>2, <1>3
<1>5. /\ strikes' \in [Endpoints -> 0 .. MaxFailures]
      /\ \A e \in Endpoints : e # t.end => strikes'[e] = strikes[e]
      /\ strikes'[t.end] = IF strikes[t.end] < MaxFailures THEN strikes[t.end] + 1
                                                           ELSE MaxFailures
  <2>1. strikes \in [Endpoints -> 0 .. MaxFailures] /\ MaxFailures \in Nat
    BY NoticesAssumption DEF NoticesTypeOK
  <2>2. strikes[t.end] + 1 \in Int /\ MaxFailures \in Int
    BY <1>1, <2>1
  <2> DEFINE m == Min({strikes[t.end] + 1, MaxFailures})
  <2>3. m = IF strikes[t.end] + 1 <= MaxFailures THEN strikes[t.end] + 1 ELSE MaxFailures
    BY <2>2, LesserOfTwo
  <2>4. strikes' = [strikes EXCEPT ![t.end] = m]
    BY DEF Struck
  <2> HIDE DEF m
  <2>5. /\ m \in 0 .. MaxFailures
        /\ m = IF strikes[t.end] < MaxFailures THEN strikes[t.end] + 1 ELSE MaxFailures
    BY <1>1, <2>1, <2>3
  <2> QED
    BY <1>1, <2>1, <2>4, <2>5
<1>6. \A e \in Endpoints : \A x : SameRow(e, x)' <=> SameRow(e, x)
  BY <1>3 DEF SameRow
<1>7. \A e \in Endpoints : Registered(e)' <=> Registered(e)
  BY <1>3 DEF Registered
<1>8. HoldsOn'
  BY <1>6 DEF HoldsOn, HeldRow
<1>9. RowsKept'
  <2>1. ASSUME NEW e \in Endpoints, Registered(e)
        PROVE  /\ rows'[e].id <= serial[e[1]]
               /\ \A d \in Endpoints : Registered(d)' /\ SameKey(d, e)' => d = e
               /\ ~rows'[e].on => rows'[e].failures = MaxFailures
               /\ rows'[e].failures <= strikes'[e]
    <3>1. /\ rows[e].failures \in 0 .. MaxFailures /\ rows'[e].failures \in 0 .. MaxFailures
          /\ strikes[e] \in 0 .. MaxFailures /\ MaxFailures \in Nat
      BY <1>2, <1>3, NoticesAssumption DEF Row, NoticesTypeOK
    <3>2. /\ ~rows[e].on => rows[e].failures = MaxFailures
          /\ rows[e].failures <= strikes[e]
      BY <2>1 DEF RowsKept
    <3>3. rows'[e].id <= serial[e[1]]
      BY <1>3, <2>1 DEF RowsKept
    <3>4. \A d \in Endpoints : Registered(d)' /\ SameKey(d, e)' => d = e
      BY <1>3, <1>7, <2>1 DEF RowsKept, SameKey
    <3>5. ~rows'[e].on => rows'[e].failures = MaxFailures
      BY <1>3, <3>1, <3>2
    <3>6. rows'[e].failures <= strikes'[e]
      BY <1>3, <1>5, <3>1, <3>2
    <3> QED
      BY <3>3, <3>4, <3>5, <3>6
  <2>2. \A e \in wanted \ (dead \cup reaped) : Registered(e)'
    BY <1>7 DEF RowsKept, NoticesTypeOK
  <2> QED
    BY <1>7, <2>1, <2>2 DEF RowsKept
<1> QED
  BY <1>4, <1>5, <1>8, <1>9

LEMMA SendStep ==
  ASSUME NoticesInv, NEW t \in sends, Send(t) \/ Unanswered(t)
  PROVE  NoticesInv'
<1> USE DEF NoticesInv
<1>1. /\ sends' = sends \ {t} /\ reading /\ tick # <<>>
      /\ UNCHANGED <<inbox, age, stamped, serial, open, tick, reading, dead, wanted,
                     reaped, unreachable>>
  BY DEF Send, Accepted, Refused, Gone, NotConfigured, Unanswered, ToSend, SendLeaves, TickInv
<1>2. t \in Recipient /\ t.end \in Endpoints /\ Current \in Notes
  BY <1>1, EndpointRows, HeadOfTick DEF NoticesTypeOK
<1>3. /\ rows' \in [Endpoints -> Row] /\ strikes' \in [Endpoints -> 0 .. MaxFailures]
      /\ RowsKept' /\ HoldsOn'
  <2>1. CASE RecordFailure(t) /\ Struck(t.end)
    BY <1>1, <2>1, FailureCounts
  <2>2. CASE UNCHANGED <<rows, strikes>>
    <3>1. UNCHANGED <<rowVars, dead>> /\ sends' \subseteq sends
      BY <1>1, <2>2 DEF rowVars
    <3>2. RowsKept' /\ HoldsOn'
      BY <3>1, RowsRest
    <3> QED
      BY <2>2, <3>2, EndpointRows DEF NoticesTypeOK
  <2>3. CASE Gone(t)
    <3> DEFINE gone == {e \in Endpoints : SameRow(e, t)}
    <3>1. /\ rows' = [e \in Endpoints |-> IF e \in gone THEN NoRow ELSE rows[e]]
          /\ strikes' = strikes /\ t.end \in dead
      BY <2>3 DEF Gone, DeleteRow
    <3>2. gone \in SUBSET Endpoints /\ gone \subseteq {t.end}
      BY DEF HoldsOn, HeldRow
    <3> HIDE DEF gone
    <3>3. RowsKept' /\ HoldsOn' /\ rows' \in [Endpoints -> Row]
      BY <1>1, <3>1, <3>2, FewerRows
    <3> QED
      BY <3>1, <3>3 DEF NoticesTypeOK
  <2> QED
    BY <2>1, <2>2, <2>3 DEF Send, Accepted, Refused, NotConfigured, Unanswered
<1>4. /\ \/ seen' = seen /\ delivered' = delivered /\ pushFaults' = pushFaults
         \/ seen' = seen \cup {Current} /\ delivered' = TRUE /\ pushFaults' = pushFaults
         \/ /\ seen' = seen \cup {Current} /\ delivered' = delivered
            /\ pushFaults < MaxPushFaults /\ pushFaults' = pushFaults + 1
  BY DEF Send, Accepted, Refused, Gone, NotConfigured, Unanswered
<1>5. /\ pushFaults' \in 0 .. MaxPushFaults /\ pushFaults' >= pushFaults /\ pushFaults \in Nat
      /\ \/ seen' = seen /\ delivered' = delivered
         \/ seen' = seen \cup {Current} /\ (delivered' \/ pushFaults' > 0)
      /\ delivered' => delivered \/ seen' = seen \cup {Current}
      /\ delivered' \in BOOLEAN /\ (delivered => delivered')
  <2>1. pushFaults \in 0 .. MaxPushFaults /\ MaxPushFaults \in Nat /\ delivered \in BOOLEAN
    BY NoticesAssumption DEF NoticesTypeOK
  <2>2. CASE seen' = seen /\ delivered' = delivered /\ pushFaults' = pushFaults
    BY <2>1, <2>2
  <2>3. CASE seen' = seen \cup {Current} /\ delivered' = TRUE /\ pushFaults' = pushFaults
    BY <2>1, <2>3
  <2>4. CASE /\ seen' = seen \cup {Current} /\ delivered' = delivered
             /\ pushFaults < MaxPushFaults /\ pushFaults' = pushFaults + 1
    <3>1. pushFaults' \in 0 .. MaxPushFaults /\ pushFaults' >= pushFaults /\ pushFaults' > 0
      BY <2>1, <2>4
    <3> QED
      BY <2>1, <2>4, <3>1
  <2> QED
    BY <1>4, <2>2, <2>3, <2>4
<1>6. NoticesTypeOK'
  <2>1. seen' \subseteq Notes
    BY <1>2, <1>5 DEF NoticesTypeOK
  <2> QED
    BY <1>1, <1>3, <1>5, <2>1 DEF NoticesTypeOK, Row
<1>7. Current' = Current
  BY <1>1 DEF Current
<1>8. TickInv'
  <2>1. delivered' => Current \in seen'
    BY <1>5 DEF TickInv
  <2>2. Current \in seen' => delivered' \/ pushFaults' > 0
    BY <1>1, <1>5 DEF TickInv
  <2> QED
    BY <1>1, <1>7, <2>1, <2>2 DEF TickInv, TooOld
<1>9. StampedForCause'
  <2>1. \A n \in stamped : n \in seen' \cup unreachable \/ age[n] > MaxAge
    BY <1>5 DEF StampedForCause
  <2>2. \A n \in seen' \ stamped : pushFaults' > 0 \/ n = Current
    BY <1>5 DEF StampedForCause
  <2> QED
    BY <1>1, <1>7, <2>1, <2>2 DEF StampedForCause
<1> QED
  BY <1>3, <1>6, <1>8, <1>9

LEMMA NoticesStep ==
  ASSUME NoticesInv, NoticesNext \/ UNCHANGED noticeVars
  PROVE  NoticesInv'
<1>1. CASE UNCHANGED noticeVars
  <2>1. UNCHANGED <<inbox, age, stamped, rowVars, tickVars, pushFaults, seen, dead, unreachable>>
    BY <1>1 DEF noticeVars
  <2>2. NoticesTypeOK'
    BY <2>1 DEF rowVars, tickVars, NoticesInv, NoticesTypeOK
  <2>3. RowsKept' /\ HoldsOn'
    BY <2>1, RowsRest DEF tickVars
  <2> QED
    BY <2>1, <2>2, <2>3, TickRests DEF NoticesInv
<1>2. CASE NoticesNext
  BY <1>2, AgesStep, DiesStep, RegisterStep, UnregisterStep, ReapStep, GenerateStep,
     ReadUnpushedStep, SkipStep, ReadRowsStep, SendStep, RowDoneStep, NotifierStopsStep
     DEF NoticesNext, PushStep
<1> QED
  BY <1>1, <1>2

LEMMA TrackKept == NoticesInv => PushKeepsTrack
<1> SUFFICES ASSUME NoticesInv PROVE RetiredForCause
  BY DEF NoticesInv, PushKeepsTrack
<1> SUFFICES ASSUME NEW e \in wanted \ (dead \cup reaped), ~rows[e].on
             PROVE  strikes[e] >= MaxFailures
  BY DEF RetiredForCause
<1>1. e \in Endpoints /\ Registered(e)
  BY DEF NoticesInv, NoticesTypeOK, RowsKept
<1>2. rows[e].failures = MaxFailures /\ rows[e].failures <= strikes[e]
  BY <1>1 DEF NoticesInv, RowsKept
<1>3. strikes[e] \in Nat /\ MaxFailures \in Nat
  BY <1>1, EndpointRows, NoticesAssumption DEF NoticesInv
<1> QED
  BY <1>2, <1>3

-----------------------------------------------------------------------------
\* The theorems.

\* In every state the newsroom and the notifier hold on to work that is still to be
\* done, and to rows that are theirs: the inductive invariant the others follow from.
THEOREM DeliveryInvariant == Spec => []DeliveryInv
<1>1. Init => DeliveryInv
  BY ObituariesInitInv, NoticesInitInv DEF Init, DeliveryInv
<1>2. DeliveryInv /\ [Next]_vars => DeliveryInv'
  <2> SUFFICES ASSUME DeliveryInv, [Next]_vars PROVE DeliveryInv'
    OBVIOUS
  <2>1. /\ enabled' = enabled
        /\ ObituariesNext \/ UNCHANGED obituaryVars
        /\ NoticesNext \/ UNCHANGED noticeVars
    BY DEF Next, vars
  <2> QED
    BY <2>1, ObituariesStep, NoticesStep DEF DeliveryInv
<1> QED
  BY <1>1, <1>2, PTL DEF Spec

\* Every state of obituaries and notifications is of its type.
THEOREM DeliveryTypeCorrect == Spec => []TypeOK
<1>1. DeliveryInv => TypeOK
  BY DEF DeliveryInv, ObituariesInv, NoticesInv, TypeOK
<1> QED
  BY <1>1, DeliveryInvariant, PTL

\* However a player is renamed and whatever fails, no channel shows two posts of one
\* death and the site lists it once, unless an answer about it was lost (newsdesk
\* tick.ts, crier tick.ts).
THEOREM PostedOnce == Spec => []OnePostPerDeath
<1>1. DeliveryInv => OnePostPerDeath
  BY OnePostOfEach DEF DeliveryInv
<1> QED
  BY <1>1, DeliveryInvariant, PTL

\* What the push loop stamps was shown, too old or had nowhere to go, and a machine
\* that believes it is registered is, but for cause (notifier push.ts).
THEOREM PushTruthful == Spec => []PushKeepsTrack
<1>1. DeliveryInv => PushKeepsTrack
  BY TrackKept DEF DeliveryInv
<1> QED
  BY <1>1, DeliveryInvariant, PTL

=============================================================================
