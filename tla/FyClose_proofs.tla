--------------------------- MODULE FyClose_proofs ---------------------------
(***************************************************************************)
(* Theorems about FyClose, for every number of years, every set of         *)
(* postings and every bound.                                               *)
(***************************************************************************)
EXTENDS FyClose, TLAPS

Balances == [0..LastYear -> [Ledgers -> Int]]

LEMMA PostType ==
    ASSUME NEW b \in Balances, NEW y \in Years,
           NEW dr, NEW cr, NEW amt \in Int
    PROVE  Post(b, y, dr, cr, amt) \in Balances
  BY DEF Post, Balances, Years

LEMMA PostCreditType ==
    ASSUME NEW b \in Balances, NEW y \in Years, NEW cr, NEW amt \in Int
    PROVE  PostCredit(b, y, cr, amt) \in Balances
  BY DEF PostCredit, Balances, Years

LEMMA NetProfitType ==
    ASSUME NEW b \in Balances, NEW y \in Years
    PROVE  NetDiff(b, y) \in Int /\ NetProfit(b, y) \in Nat
<1>1. y \in 0..LastYear /\ y - 1 \in 0..LastYear
  BY ConstantsAssumption DEF Years
<1>2. \A a \in Ledgers : b[y][a] \in Int /\ Turnover(b, y, a) \in Int
  BY <1>1 DEF Balances, Turnover
<1>3. {"trading", "direct", "pl", "income", "expense"} \subseteq Ledgers
  BY DEF Ledgers, Nominal
<1>4. \A x \in Int : Pos(x) \in Nat
  BY DEF Pos
<1>5. NetDiff(b, y) \in Int
  <2>1. /\ Turnover(b, y, "trading") \in Int /\ Turnover(b, y, "pl") \in Int
        /\ Turnover(b, y, "direct") \in Int
        /\ b[y]["income"] \in Int /\ b[y]["expense"] \in Int
    BY <1>2, <1>3
  <2>2. Pos(Turnover(b, y, "direct")) \in Int /\ Pos(- b[y]["income"]) \in Int
    BY <1>4, <2>1
  <2> QED
    BY <2>1, <2>2 DEF NetDiff
<1> QED
  BY <1>4, <1>5 DEF NetProfit

-----------------------------------------------------------------------------
(* The pairs of legs and the balances *)

LEMMA PostPairIs ==
    ASSUME NEW b, NEW pairs
    PROVE  \/ pairs = {} /\ PostPair(b, pairs) = b
           \/ \E l \in pairs : PostPair(b, pairs) = Post(b, l.yr, l.dr, l.cr, l.amt)
<1>1. CASE pairs = {}
  BY <1>1 DEF PostPair
<1>2. CASE pairs # {}
  <2> DEFINE l == CHOOSE x \in pairs : TRUE
  <2>1. l \in pairs
    BY <1>2
  <2>2. PostPair(b, pairs) = Post(b, l.yr, l.dr, l.cr, l.amt)
    BY <1>2 DEF PostPair
  <2> QED
    BY <2>1, <2>2
<1> QED
  BY <1>1, <1>2

LEMMA PostPairType ==
    ASSUME NEW b \in Balances, NEW pairs, pairs \subseteq LegType
    PROVE  PostPair(b, pairs) \in Balances
<1>1. ASSUME NEW l \in pairs PROVE Post(b, l.yr, l.dr, l.cr, l.amt) \in Balances
  <2>1. l.yr \in Years /\ l.amt \in Int
    BY DEF LegType
  <2> QED
    BY <2>1, PostType
<1> QED
  BY <1>1, PostPairIs

LEMMA PostAllType ==
    ASSUME NEW b \in Balances, NEW pairs, pairs \subseteq LegType
    PROVE  PostAll(b, pairs) \in Balances
<1> DEFINE e == {l \in pairs : l.by = "edit"}
           m == {l \in pairs : l.by = "mirror"}
           r == {l \in pairs : l.by \notin {"edit", "mirror"}}
<1>1. e \subseteq LegType /\ m \subseteq LegType /\ r \subseteq LegType
  OBVIOUS
<1>2. PostAll(b, pairs) = PostPair(PostPair(PostPair(b, e), m), r)
  BY DEF PostAll
<1> HIDE DEF e, m, r
<1> QED
  BY <1>1, <1>2, PostPairType

\* The pairs with their sides swapped.
Swapped(pairs) == {[l EXCEPT !.dr = l.cr, !.cr = l.dr] : l \in pairs}

LEMMA SwappedType ==
    ASSUME NEW pairs, pairs \subseteq LegType
    PROVE  /\ Swapped(pairs) \subseteq LegType
           /\ \A m \in Swapped(pairs) : \E l \in pairs : m.yr = l.yr
<1> SUFFICES ASSUME NEW m \in Swapped(pairs)
             PROVE  m \in LegType /\ \E l \in pairs : m.yr = l.yr
  OBVIOUS
<1>1. PICK l \in pairs : m = [l EXCEPT !.dr = l.cr, !.cr = l.dr]
  BY DEF Swapped
<1>2. l \in LegType
  OBVIOUS
<1>3. m \in LegType /\ m.yr = l.yr
  BY <1>1, <1>2 DEF LegType
<1> QED
  BY <1>3

LEMMA UnpostedType ==
    ASSUME NEW b \in Balances, NEW pairs, pairs \subseteq LegType
    PROVE  Unposted(b, pairs) \in Balances
  BY SwappedType, PostAllType DEF Unposted, Swapped
-----------------------------------------------------------------------------
(* What the writers of journals do *)

JobType == [op : {"idle", "close", "reverse", "clear"}, year : Years, net : Nat]

LEMMA IdleType == Idle \in JobType
  BY ConstantsAssumption DEF Idle, JobType, Years

LEMMA NextNoType == \A y : NextNo(y) \subseteq 1..MaxNo
  BY DEF NextNo

LEMMA JournalType ==
    ASSUME NEW no \in Years \X (1..MaxNo), NEW y \in Years, NEW yr \in Years,
           NEW ref \in {"user", "close", "reversal"}, NEW of \in 0..MaxNo
    PROVE  Journal(no, y, yr, ref, of) \in VoucherType
  BY DEF Journal, VoucherType

LEMMA LegIsTyped ==
    ASSUME NEW no \in Years \X (1..MaxNo), NEW y \in Years, NEW yr \in Years,
           NEW dr \in Ledgers, NEW cr \in Ledgers, NEW amt \in Nat,
           NEW by \in {"user", "close", "reversal", "mirror", "edit"}
    PROVE  Leg(no, y, yr, dr, cr, amt, by) \in LegType
  BY DEF Leg, LegType

\* An edit rewrites one header or none, and replaces the pairs under two numbers
\* by one pair under the number of the form.
EditFacts(y, target, no, old, p) ==
    /\ job = Idle /\ Writable(y) /\ no \in Numbers
    /\ \/ target = {} /\ old = no
       \/ \E h \in vouchers : target = {h} /\ old = h.no
    /\ p \in Rows(no)
    /\ vouchers' = (vouchers \ target) \cup {Journal(no, y, y, "user", 0) : h \in target}
    /\ legs' = (legs \ (LegsUnder(old) \cup LegsUnder(no)))
               \cup {Leg(no, y, y, p[1], p[2], p[3], "edit")}
    /\ bal' = Post(Unposted(Unposted(bal, LegsUnder(old)), LegsUnder(no) \ LegsUnder(old)),
                   y, p[1], p[2], p[3])
    /\ UNCHANGED <<status, key, snap, today, job>>

LEMMA EditIs ==
    ASSUME NEW y, EditJournal(y)
    PROVE  \E target, no, old, p : EditFacts(y, target, no, old, p)
<1>1. PICK target \in SomeHeader, no \in Numbers :
         /\ vouchers' = (vouchers \ target) \cup {Journal(no, y, y, "user", 0) : h \in target}
         /\ \E p \in Rows(no) : Rewritten(target, no, y, p)
  BY DEF EditJournal
<1>2. PICK p \in Rows(no) : Rewritten(target, no, y, p)
  BY <1>1
<1>3. PICK old \in IF target = {} THEN {no} ELSE {h.no : h \in target} :
         /\ legs' = (legs \ (LegsUnder(old) \cup LegsUnder(no)))
                    \cup {Leg(no, y, y, p[1], p[2], p[3], "edit")}
         /\ bal' = Post(Unposted(Unposted(bal, LegsUnder(old)), LegsUnder(no) \ LegsUnder(old)),
                        y, p[1], p[2], p[3])
  BY <1>2 DEF Rewritten
<1>4. \/ target = {} /\ old = no
      \/ \E h \in vouchers : target = {h} /\ old = h.no
  <2>1. target = {} \/ \E h \in vouchers : target = {h}
    BY DEF SomeHeader
  <2> QED
    BY <1>3, <2>1
<1>5. EditFacts(y, target, no, old, p)
  BY <1>1, <1>2, <1>3, <1>4 DEF EditFacts, EditJournal
<1> QED
  BY <1>5

LEMMA RowsType ==
    ASSUME TypeOK, NEW no \in Numbers, NEW p \in Rows(no)
    PROVE  /\ no \in Years \X (1..MaxNo)
           /\ p[1] \in Ledgers /\ p[2] \in Ledgers /\ p[3] \in Nat
<1>1. no \in Years \X (1..MaxNo)
  BY DEF Numbers, TypeOK, VoucherType, LegType
<1>2. CASE p \in Postings
  BY <1>1, <1>2, ConstantsAssumption
<1>3. CASE p \notin Postings
  <2>1. PICK l \in LegsUnder(no) : p = <<l.dr, l.cr, l.amt>>
    BY <1>3 DEF Rows
  <2>2. l.dr \in Ledgers /\ l.cr \in Ledgers /\ l.amt \in Nat
    BY DEF LegsUnder, TypeOK, LegType
  <2> QED
    BY <1>1, <2>1, <2>2
<1> QED
  BY <1>2, <1>3

\* The reversal of a closing voucher, under the number n.
ReversalFacts(y, n, mirrored) ==
    /\ n \in NextNo(y) /\ Writable(today)
    /\ ClosingLegs(y) # {} /\ ClosingHeader(y) # {}
    /\ mirrored = {Mirror(l, <<y, n>>, y, today) : l \in ClosingLegs(y)}
    /\ vouchers' = vouchers \cup {Journal(<<y, n>>, y, today, "reversal", key[y])}
    /\ legs' = legs \cup mirrored
    /\ bal' = PostAll(bal, mirrored)

LEMMA ReverseIs ==
    ASSUME ReopenReverse
    PROVE  \/ ReversalExists(job.year) /\ UNCHANGED books
           \/ \E n, mirrored : ReversalFacts(job.year, n, mirrored)
<1>1. CASE ReversalExists(job.year)
  BY <1>1 DEF ReopenReverse
<1>2. CASE ~ ReversalExists(job.year)
  <2> DEFINE y == job.year
  <2>1. /\ Writable(today) /\ ClosingLegs(y) # {} /\ ClosingHeader(y) # {}
        /\ \E n \in NextNo(y) :
             \E mirrored \in {{Mirror(l, <<y, n>>, y, today) : l \in ClosingLegs(y)}} :
               /\ vouchers' = vouchers \cup {Journal(<<y, n>>, y, today, "reversal", key[y])}
               /\ legs' = legs \cup mirrored
               /\ bal' = PostAll(bal, mirrored)
    BY <1>2 DEF ReopenReverse
  <2>2. PICK n \in NextNo(y) :
             \E mirrored \in {{Mirror(l, <<y, n>>, y, today) : l \in ClosingLegs(y)}} :
               /\ vouchers' = vouchers \cup {Journal(<<y, n>>, y, today, "reversal", key[y])}
               /\ legs' = legs \cup mirrored
               /\ bal' = PostAll(bal, mirrored)
    BY <2>1
  <2>3. PICK mirrored \in {{Mirror(l, <<y, n>>, y, today) : l \in ClosingLegs(y)}} :
               /\ vouchers' = vouchers \cup {Journal(<<y, n>>, y, today, "reversal", key[y])}
               /\ legs' = legs \cup mirrored
               /\ bal' = PostAll(bal, mirrored)
    BY <2>2
  <2>4. ReversalFacts(y, n, mirrored)
    BY <2>1, <2>2, <2>3 DEF ReversalFacts
  <2> QED
    BY <2>4
<1> QED
  BY <1>1, <1>2

LEMMA MirrorType ==
    ASSUME TypeOK, NEW y \in Years, NEW n \in NextNo(y), NEW mirrored,
           mirrored = {Mirror(l, <<y, n>>, y, today) : l \in ClosingLegs(y)}
    PROVE  mirrored \subseteq LegType
<1> SUFFICES ASSUME NEW m \in mirrored PROVE m \in LegType
  OBVIOUS
<1>1. PICK l \in ClosingLegs(y) : m = Mirror(l, <<y, n>>, y, today)
  OBVIOUS
<1>2. l.dr \in Ledgers /\ l.cr \in Ledgers /\ l.amt \in Nat /\ today \in Years
  BY DEF ClosingLegs, TypeOK, LegType
<1>3. <<y, n>> \in Years \X (1..MaxNo)
  BY NextNoType
<1> QED
  BY <1>1, <1>2, <1>3, LegIsTyped DEF Mirror

\* The closing journal of year y under the number n, or none.
CloseFacts(y, n) ==
    /\ \/ n = NoVoucher /\ job.net = 0
       \/ n # NoVoucher /\ n \in NextNo(y)
    /\ \/ n = NoVoucher /\ UNCHANGED <<vouchers, legs>>
       \/ /\ n # NoVoucher
          /\ vouchers' = vouchers \cup {Journal(<<y, n>>, y, y, "close", 0)}
          /\ legs' = legs \cup {Leg(<<y, n>>, y, y, "pl", "capital", job.net, "close")}
    /\ key' = [key EXCEPT ![y] = n]

LEMMA CloseIs ==
    ASSUME ClosePost PROVE \E n : CloseFacts(job.year, n)
<1> DEFINE y == job.year
<1>1. PICK n \in IF job.net = 0 THEN {NoVoucher} ELSE NextNo(y) :
          /\ vouchers' = vouchers \cup
                 {Journal(<<y, n>>, y, y, "close", 0) : k \in {n} \ {NoVoucher}}
          /\ legs' = legs \cup
                 {Leg(<<y, n>>, y, y, "pl", "capital", job.net, "close") : k \in {n} \ {NoVoucher}}
          /\ key' = [key EXCEPT ![y] = n]
  BY DEF ClosePost
<1>2. CASE n = NoVoucher
  <2>1. 0 \notin NextNo(y)
    BY NextNoType
  <2>2. job.net = 0
    BY <1>1, <1>2, <2>1 DEF NoVoucher
  <2>3. UNCHANGED <<vouchers, legs>>
    BY <1>1, <1>2
  <2>4. key' = [key EXCEPT ![y] = n]
    BY <1>1
  <2> QED
    BY <1>2, <2>2, <2>3, <2>4 DEF CloseFacts
<1>3. CASE n # NoVoucher
  <2>1. n \in NextNo(y)
    BY <1>1, <1>3
  <2>2. \A x : {x : k \in {n} \ {NoVoucher}} = {x}
    BY <1>3
  <2>3. /\ vouchers' = vouchers \cup {Journal(<<y, n>>, y, y, "close", 0)}
        /\ legs' = legs \cup {Leg(<<y, n>>, y, y, "pl", "capital", job.net, "close")}
    BY <1>1, <2>2
  <2> QED
    BY <1>1, <1>3, <2>1, <2>3 DEF CloseFacts
<1> QED
  BY <1>2, <1>3

-----------------------------------------------------------------------------
LEMMA TypeInit == Init => TypeOK
<1> SUFFICES ASSUME Init PROVE TypeOK
  OBVIOUS
<1>1. NoKey \in NoKey..MaxNo /\ 1 \in Years /\ 0 \in 0..MaxChanges
  BY ConstantsAssumption DEF NoKey, Years
<1>2. job \in JobType
  BY IdleType DEF Init
<1> QED
  BY <1>1, <1>2 DEF Init, TypeOK, JobType

LEMMA EditType ==
    ASSUME TypeOK, NEW y \in Years, NEW target, NEW no, NEW old, NEW p,
           EditFacts(y, target, no, old, p)
    PROVE  /\ vouchers' \subseteq VoucherType /\ legs' \subseteq LegType
           /\ bal' \in [0..LastYear -> [Ledgers -> Int]]
<1>1. /\ no \in Years \X (1..MaxNo)
      /\ p[1] \in Ledgers /\ p[2] \in Ledgers /\ p[3] \in Nat
  BY RowsType DEF EditFacts
<1>2. Journal(no, y, y, "user", 0) \in VoucherType
  <2>1. 0 \in 0..MaxNo
    BY ConstantsAssumption
  <2> QED
    BY <1>1, <2>1, JournalType
<1>3. Leg(no, y, y, p[1], p[2], p[3], "edit") \in LegType
  BY <1>1, LegIsTyped
<1>4. vouchers' \subseteq VoucherType /\ legs' \subseteq LegType
  BY <1>2, <1>3 DEF EditFacts, TypeOK
<1>5. bal' \in Balances
  <2>1. LegsUnder(old) \subseteq LegType /\ LegsUnder(no) \ LegsUnder(old) \subseteq LegType
    BY DEF LegsUnder, TypeOK
  <2>2. bal \in Balances
    BY DEF TypeOK, Balances
  <2>3. Unposted(bal, LegsUnder(old)) \in Balances
    BY <2>1, <2>2, UnpostedType
  <2>4. Unposted(Unposted(bal, LegsUnder(old)), LegsUnder(no) \ LegsUnder(old)) \in Balances
    BY <2>1, <2>3, UnpostedType
  <2>5. p[3] \in Int
    BY <1>1
  <2> QED
    BY <2>4, <2>5, PostType DEF EditFacts
<1> QED
  BY <1>4, <1>5 DEF Balances

LEMMA TypeStep == TypeOK /\ [Next]_vars => TypeOK'
<1> SUFFICES ASSUME TypeOK, [Next]_vars PROVE TypeOK'
  OBVIOUS
<1> USE ConstantsAssumption
<1>t. /\ bal \in Balances /\ job \in JobType
      /\ vouchers \subseteq VoucherType
      /\ legs \subseteq LegType
      /\ status \in [Years -> {"open", "locked"}]
      /\ key \in [Years -> NoKey..MaxNo]
      /\ snap \in [2..LastYear + 1 -> [BalanceSheet -> Int]]
      /\ today \in Years
      /\ changes \in 0..MaxChanges
  BY DEF TypeOK, Balances, JobType
<1>l. /\ {"cash", "capital", "duties", "pl", "expense"} \subseteq Ledgers
      /\ BalanceSheet \subseteq Ledgers
  BY DEF Ledgers, BalanceSheet, Nominal
<1>1. ASSUME NEW y \in Years, NEW p \in Postings, SaveJournal(y, p) PROVE TypeOK'
  <2>1. p[1] \in Ledgers /\ p[2] \in Ledgers /\ p[3] \in Nat
    OBVIOUS
  <2>2. bal' \in Balances
    BY <1>1, <1>t, <2>1, PostType DEF SaveJournal
  <2>3. vouchers' \subseteq VoucherType /\ legs' \subseteq LegType
    <3>1. PICK n \in NextNo(y) :
             /\ vouchers' = vouchers \cup {Journal(<<y, n>>, y, y, "user", 0)}
             /\ legs' = legs \cup {Leg(<<y, n>>, y, y, p[1], p[2], p[3], "user")}
      BY <1>1 DEF SaveJournal
    <3>2. <<y, n>> \in Years \X (1..MaxNo) /\ 0 \in 0..MaxNo
      BY NextNoType
    <3>3. /\ Journal(<<y, n>>, y, y, "user", 0) \in VoucherType
          /\ Leg(<<y, n>>, y, y, p[1], p[2], p[3], "user") \in LegType
      BY <2>1, <3>2, JournalType, LegIsTyped
    <3> QED
      BY <1>t, <3>1, <3>3
  <2> QED
    BY <1>1, <1>t, <2>2, <2>3 DEF SaveJournal, TypeOK, Balances, JobType
<1>2. ASSUME NEW y \in Years, EditJournal(y) PROVE TypeOK'
  <2>1. PICK target, no, old, p : EditFacts(y, target, no, old, p)
    BY <1>2, EditIs
  <2>2. /\ vouchers' \subseteq VoucherType /\ legs' \subseteq LegType
        /\ bal' \in [0..LastYear -> [Ledgers -> Int]]
    BY <2>1, EditType
  <2>3. changes' \in 0..MaxChanges
    BY <1>2, <1>t DEF EditJournal
  <2> QED
    BY <1>2, <1>t, <2>2, <2>3 DEF EditJournal, TypeOK, JobType
<1>3. ASSUME NEW v \in vouchers, DeleteVoucher(v) PROVE TypeOK'
  <2>1. LegsUnder(v.no) \subseteq LegType
    BY <1>t DEF LegsUnder
  <2>2. bal' \in Balances
    BY <1>3, <1>t, <2>1, UnpostedType DEF DeleteVoucher
  <2>3. changes' \in 0..MaxChanges
    BY <1>3, <1>t DEF DeleteVoucher
  <2> QED
    BY <1>3, <1>t, <2>2, <2>3 DEF DeleteVoucher, TypeOK, Balances, JobType
<1>4. ASSUME NEW y \in Years, NEW i \in {0, 1}, NEW h \in BOOLEAN,
             SaveChallan(y, 1, i, h)
      PROVE TypeOK'
  <2>1. Post(bal, y, "duties", "cash", 1) \in Balances
    BY <1>t, PostType
  <2>2. bal' \in Balances
    BY <1>4, <2>1, PostType, PostCreditType DEF SaveChallan
  <2> QED
    BY <1>4, <1>t, <2>2 DEF SaveChallan, TypeOK, Balances, JobType
<1>5. ASSUME NEW y \in Years, LockYear(y) PROVE TypeOK'
  BY <1>5, <1>t DEF LockYear, TypeOK, Balances, JobType
<1>6. CASE NextYear
  <2>1. today' \in Years
    BY <1>6, <1>t DEF NextYear, Years
  <2> QED
    BY <1>6, <1>t, <2>1 DEF NextYear, TypeOK, Balances, JobType
<1>7. ASSUME NEW y \in Years, CloseRead(y) PROVE TypeOK'
  <2>1. job' \in JobType
    BY <1>7, <1>t, NetProfitType DEF CloseRead, JobType
  <2> QED
    BY <1>7, <1>t, <2>1 DEF CloseRead, TypeOK, Balances, JobType
<1>8. CASE ClosePost
  <2>1. job.year \in Years /\ job.net \in Nat
    BY <1>t DEF JobType
  <2>2. bal' \in Balances
    BY <1>8, <1>t, <2>1, PostType DEF ClosePost
  <2>3. snap' \in [2..LastYear + 1 -> [BalanceSheet -> Int]]
    <3>1. \A a \in BalanceSheet : bal'[job.year][a] \in Int
      <4>1. job.year \in 0..LastYear
        BY <2>1 DEF Years
      <4>2. bal'[job.year] \in [Ledgers -> Int]
        BY <2>2, <4>1 DEF Balances
      <4> QED
        BY <1>l, <4>2
    <3>2. snap' = [snap EXCEPT ![job.year + 1] = [a \in BalanceSheet |-> bal'[job.year][a]]]
      BY <1>8 DEF ClosePost
    <3> DEFINE row == [a \in BalanceSheet |-> bal'[job.year][a]]
    <3>3. row \in [BalanceSheet -> Int]
      BY <3>1
    <3> HIDE DEF row
    <3>4. [snap EXCEPT ![job.year + 1] = row] \in [2..LastYear + 1 -> [BalanceSheet -> Int]]
      BY <1>t, <3>3
    <3> QED
      BY <3>2, <3>4 DEF row
  <2>4. /\ vouchers' \subseteq VoucherType /\ legs' \subseteq LegType
        /\ key' \in [Years -> NoKey..MaxNo]
    <3> DEFINE y == job.year
    <3>1. PICK n : CloseFacts(y, n)
      BY <1>8, CloseIs
    <3>2. n = NoVoucher \/ n \in 1..MaxNo
      BY <3>1, NextNoType DEF CloseFacts
    <3>3. n \in NoKey..MaxNo
      BY <3>2 DEF NoVoucher, NoKey
    <3>4. key' \in [Years -> NoKey..MaxNo]
      BY <1>t, <3>1, <3>3 DEF CloseFacts
    <3>5. CASE n = NoVoucher
      BY <1>t, <3>1, <3>4, <3>5 DEF CloseFacts
    <3>6. CASE n # NoVoucher
      <4>1. "pl" \in Ledgers /\ "capital" \in Ledgers /\ 0 \in 0..MaxNo
        BY <1>l
      <4>2. <<y, n>> \in Years \X (1..MaxNo)
        BY <2>1, <3>2, <3>6
      <4>3. /\ Journal(<<y, n>>, y, y, "close", 0) \in VoucherType
            /\ Leg(<<y, n>>, y, y, "pl", "capital", job.net, "close") \in LegType
        BY <2>1, <4>1, <4>2, JournalType, LegIsTyped
      <4>4. /\ vouchers' = vouchers \cup {Journal(<<y, n>>, y, y, "close", 0)}
            /\ legs' = legs \cup {Leg(<<y, n>>, y, y, "pl", "capital", job.net, "close")}
        BY <3>1, <3>6 DEF CloseFacts
      <4> QED
        BY <1>t, <3>4, <4>3, <4>4
    <3> QED
      BY <3>5, <3>6
  <2>5. job' \in JobType
    BY <1>8, IdleType DEF ClosePost
  <2>6. /\ status' \in [Years -> {"open", "locked"}] /\ today' \in Years
        /\ changes' \in 0..MaxChanges
    BY <1>8, <1>t DEF ClosePost
  <2> QED
    BY <2>2, <2>3, <2>4, <2>5, <2>6 DEF TypeOK, Balances, JobType
<1>9. CASE CloseFail
  BY <1>9, <1>t, IdleType DEF CloseFail, TypeOK, Balances, JobType
<1>10. ASSUME NEW y \in Years, ReopenUnlock(y) PROVE TypeOK'
  <2>1. job' \in JobType
    BY <1>10, <1>t DEF ReopenUnlock, JobType, Idle
  <2> QED
    BY <1>10, <1>t, <2>1 DEF ReopenUnlock, TypeOK, Balances, JobType
<1>11. CASE ReopenReverse
  <2>1. job' \in JobType
    BY <1>11, <1>t DEF ReopenReverse, JobType
  <2>2. bal' \in Balances /\ vouchers' \subseteq VoucherType /\ legs' \subseteq LegType
    <3> DEFINE y == job.year
    <3>1. CASE UNCHANGED books
      BY <1>t, <3>1 DEF books
    <3>2. CASE \E n, mirrored : ReversalFacts(y, n, mirrored)
      <4>1. PICK n, mirrored : ReversalFacts(y, n, mirrored)
        BY <3>2
      <4>2. y \in Years /\ <<y, n>> \in Years \X (1..MaxNo)
        BY <1>t, <4>1, NextNoType DEF JobType, ReversalFacts
      <4>3. key[y] \in 0..MaxNo
        <5>1. \E v \in vouchers : v.no = <<y, key[y]>>
          BY <4>1 DEF ReversalFacts, ClosingHeader, ClosingNo
        <5>2. <<y, key[y]>> \in Years \X (1..MaxNo)
          BY <1>t, <5>1 DEF VoucherType
        <5> QED
          BY <5>2
      <4>4. Journal(<<y, n>>, y, today, "reversal", key[y]) \in VoucherType
        BY <1>t, <4>2, <4>3, JournalType
      <4>5. mirrored \subseteq LegType
        BY <4>1, <4>2, MirrorType DEF ReversalFacts
      <4> QED
        BY <1>t, <4>1, <4>4, <4>5, PostAllType DEF ReversalFacts
    <3> QED
      BY <1>11, <3>1, <3>2, ReverseIs
  <2> QED
    BY <1>11, <1>t, <2>1, <2>2 DEF ReopenReverse, TypeOK, Balances, JobType
<1>12. CASE ReopenAbort
  BY <1>12, <1>t, IdleType DEF ReopenAbort, TypeOK, Balances, JobType
<1>13. CASE ReopenClear
  <2>1. NoKey \in NoKey..MaxNo
    BY DEF NoKey
  <2> QED
    BY <1>13, <1>t, <2>1, IdleType DEF ReopenClear, TypeOK, Balances, JobType
<1>14. CASE Crash
  BY <1>14, <1>t, IdleType DEF Crash, TypeOK, Balances, JobType
<1>15. CASE UNCHANGED vars
  BY <1>15, <1>t DEF vars, TypeOK, Balances, JobType
<1> QED
  BY <1>1, <1>2, <1>3, <1>4, <1>5, <1>6, <1>7, <1>8, <1>9, <1>10, <1>11, <1>12,
     <1>13, <1>14, <1>15 DEF Next

\* The type invariant: no operation, interleaving or failure mints a number
\* past the series, records a setting that is not one of its numbers, or
\* computes a negative profit.
THEOREM TypeCorrect == Spec => []TypeOK
  BY TypeInit, TypeStep, PTL DEF Spec
-----------------------------------------------------------------------------
(* The trial balance *)

LEMMA SumType == ASSUME NEW f \in [Ledgers -> Int] PROVE Sum(f) \in Int
  BY DEF Sum, Ledgers, BalanceSheet, Nominal

\* Adding to one ledger adds to the sum.
LEMMA SumAdd ==
    ASSUME NEW f \in [Ledgers -> Int], NEW l \in Ledgers, NEW x \in Int
    PROVE  Sum([a \in Ledgers |-> f[a] + (IF a = l THEN x ELSE 0)]) = Sum(f) + x
<1>1. /\ "capital" \in Ledgers /\ "cash" \in Ledgers /\ "duties" \in Ledgers
      /\ "trading" \in Ledgers /\ "direct" \in Ledgers /\ "pl" \in Ledgers
      /\ "income" \in Ledgers /\ "expense" \in Ledgers
  BY DEF Ledgers, BalanceSheet, Nominal
<1>2. \/ l = "capital" \/ l = "cash" \/ l = "duties" \/ l = "trading"
      \/ l = "direct" \/ l = "pl" \/ l = "income" \/ l = "expense"
  BY DEF Ledgers, BalanceSheet, Nominal
<1>3. CASE l = "capital"  BY <1>1, <1>3 DEF Sum
<1>4. CASE l = "cash"     BY <1>1, <1>4 DEF Sum
<1>5. CASE l = "duties"   BY <1>1, <1>5 DEF Sum
<1>6. CASE l = "trading"  BY <1>1, <1>6 DEF Sum
<1>7. CASE l = "direct"   BY <1>1, <1>7 DEF Sum
<1>8. CASE l = "pl"       BY <1>1, <1>8 DEF Sum
<1>9. CASE l = "income"   BY <1>1, <1>9 DEF Sum
<1>10. CASE l = "expense" BY <1>1, <1>10 DEF Sum
<1> QED
  BY <1>2, <1>3, <1>4, <1>5, <1>6, <1>7, <1>8, <1>9, <1>10

\* A posting of two legs moves no trial balance.
LEMMA PostBalances ==
    ASSUME NEW b \in Balances, NEW y \in Years,
           NEW dr \in Ledgers, NEW cr \in Ledgers, NEW amt \in Int,
           NEW k \in 0..LastYear
    PROVE  Sum(Post(b, y, dr, cr, amt)[k]) = Sum(b[k])
<1>1. CASE k < y
  BY <1>1 DEF Post
<1>2. CASE ~ (k < y)
  <2> DEFINE f == b[k]
             g == [a \in Ledgers |-> f[a] + (IF a = dr THEN amt ELSE 0)]
             h == [a \in Ledgers |-> g[a] + (IF a = cr THEN - amt ELSE 0)]
  <2>1. f \in [Ledgers -> Int]
    BY DEF Balances
  <2>2. g \in [Ledgers -> Int] /\ Sum(g) = Sum(f) + amt
    BY <2>1, SumAdd
  <2>3. Sum(h) = Sum(g) + (- amt)
    <3>1. - amt \in Int
      OBVIOUS
    <3> DEFINE x == - amt
    <3>2. x \in Int
      BY <3>1
    <3>3. g \in [Ledgers -> Int]
      BY <2>2
    <3> HIDE DEF g, x
    <3>4. Sum([a \in Ledgers |-> g[a] + (IF a = cr THEN x ELSE 0)]) = Sum(g) + x
      BY <3>2, <3>3, SumAdd
    <3> QED
      BY <3>4 DEF x
  <2>4. Post(b, y, dr, cr, amt)[k] = h
    <3>1. \A a \in Ledgers : f[a] \in Int
      BY <2>1
    <3>2. Post(b, y, dr, cr, amt)[k] =
              [a \in Ledgers |-> f[a] + (IF a = dr THEN amt ELSE 0)
                                      - (IF a = cr THEN amt ELSE 0)]
      BY <1>2 DEF Post
    <3> QED
      BY <3>1, <3>2
  <2>5. Sum(f) \in Int
    BY <2>1, SumType
  <2>6. Sum(h) = Sum(f)
    <3> HIDE DEF f, g, h
    <3> QED
      BY <2>2, <2>3, <2>5
  <2> QED
    BY <2>4, <2>6
<1> QED
  BY <1>1, <1>2

\* Neither does posting or taking out the pairs under a number.
LEMMA PairsBalance ==
    ASSUME NEW b \in Balances, NEW pairs, pairs \subseteq LegType, NEW k \in 0..LastYear
    PROVE  /\ Sum(PostAll(b, pairs)[k]) = Sum(b[k])
           /\ Sum(Unposted(b, pairs)[k]) = Sum(b[k])
<1>1. ASSUME NEW c \in Balances, NEW s, s \subseteq LegType
      PROVE  Sum(PostPair(c, s)[k]) = Sum(c[k])
  <2>1. ASSUME NEW l \in s PROVE Sum(Post(c, l.yr, l.dr, l.cr, l.amt)[k]) = Sum(c[k])
    <3>1. l.yr \in Years /\ l.dr \in Ledgers /\ l.cr \in Ledgers /\ l.amt \in Int
      BY <1>1 DEF LegType
    <3> QED
      BY <3>1, PostBalances
  <2> QED
    BY <2>1, PostPairIs
<1>2. ASSUME NEW s, s \subseteq LegType PROVE Sum(PostAll(b, s)[k]) = Sum(b[k])
  <2> DEFINE e == {l \in s : l.by = "edit"}
             m == {l \in s : l.by = "mirror"}
             r == {l \in s : l.by \notin {"edit", "mirror"}}
  <2>1. e \subseteq LegType /\ m \subseteq LegType /\ r \subseteq LegType
    BY <1>2
  <2>2. PostAll(b, s) = PostPair(PostPair(PostPair(b, e), m), r)
    BY DEF PostAll
  <2> HIDE DEF e, m, r
  <2>3. PostPair(b, e) \in Balances /\ PostPair(PostPair(b, e), m) \in Balances
    BY <2>1, PostPairType
  <2> QED
    BY <1>1, <2>1, <2>2, <2>3
<1>3. Unposted(b, pairs) = PostAll(b, Swapped(pairs)) /\ Swapped(pairs) \subseteq LegType
  BY SwappedType DEF Unposted, Swapped
<1> QED
  BY <1>2, <1>3

LEMMA SameSums ==
    ASSUME Balanced, \A k \in 0..LastYear : Sum(bal'[k]) = Sum(bal[k])
    PROVE  Balanced'
  BY DEF Balanced

\* The trial balances at every date, whatever is posted, edited, deleted,
\* closed, reversed or cut short.  The one writer that breaks it is the challan.
THEOREM BooksBalance ==
    ASSUME "challan" \notin Writers PROVE Spec => []Balanced
<1> USE ConstantsAssumption
<1>1. Init => Balanced
  <2> SUFFICES ASSUME Init, NEW y \in 0..LastYear PROVE Sum(bal[y]) = 0
    BY DEF Balanced
  <2> QED
    BY DEF Init, Sum, Ledgers, BalanceSheet, Nominal
<1>2. TypeOK /\ Balanced /\ [Next]_vars => Balanced'
  <2> SUFFICES ASSUME TypeOK, [Next]_vars, NEW k \in 0..LastYear
               PROVE  Sum(bal'[k]) = Sum(bal[k])
    BY SameSums
  <2>t. /\ bal \in Balances /\ legs \subseteq LegType /\ job \in JobType /\ today \in Years
        /\ {"pl", "capital"} \subseteq Ledgers
    BY DEF TypeOK, Balances, JobType, Ledgers, BalanceSheet, Nominal
  <2>1. ASSUME NEW y \in Years, NEW p \in Postings, SaveJournal(y, p)
        PROVE  Sum(bal'[k]) = Sum(bal[k])
    <3>1. p[1] \in Ledgers /\ p[2] \in Ledgers /\ p[3] \in Int
      OBVIOUS
    <3> QED
      BY <2>1, <2>t, <3>1, PostBalances DEF SaveJournal
  <2>2. ASSUME NEW y \in Years, EditJournal(y) PROVE Sum(bal'[k]) = Sum(bal[k])
    <3>1. PICK target, no, old, p : EditFacts(y, target, no, old, p)
      BY <2>2, EditIs
    <3> DEFINE b1 == Unposted(bal, LegsUnder(old))
               b2 == Unposted(b1, LegsUnder(no) \ LegsUnder(old))
    <3>2. LegsUnder(old) \subseteq LegType /\ LegsUnder(no) \ LegsUnder(old) \subseteq LegType
      BY <2>t DEF LegsUnder
    <3>3. b1 \in Balances /\ Sum(b1[k]) = Sum(bal[k])
      BY <2>t, <3>2, UnpostedType, PairsBalance
    <3>4. b2 \in Balances /\ Sum(b2[k]) = Sum(b1[k])
      <4> HIDE DEF b1
      <4> QED
        BY <3>2, <3>3, UnpostedType, PairsBalance
    <3>5. p[1] \in Ledgers /\ p[2] \in Ledgers /\ p[3] \in Int
      BY <3>1, RowsType DEF EditFacts
    <3>6. bal' = Post(b2, y, p[1], p[2], p[3])
      BY <3>1 DEF EditFacts
    <3> HIDE DEF b1, b2
    <3> QED
      BY <3>3, <3>4, <3>5, <3>6, PostBalances
  <2>3. ASSUME NEW v \in vouchers, DeleteVoucher(v) PROVE Sum(bal'[k]) = Sum(bal[k])
    <3>1. LegsUnder(v.no) \subseteq LegType
      BY <2>t DEF LegsUnder
    <3> QED
      BY <2>3, <2>t, <3>1, PairsBalance DEF DeleteVoucher
  <2>4. CASE ClosePost
    <3>1. job.year \in Years /\ job.net \in Int
      BY <2>t DEF JobType
    <3> QED
      BY <2>4, <2>t, <3>1, PostBalances DEF ClosePost
  <2>5. CASE ReopenReverse
    <3>1. CASE UNCHANGED books
      BY <3>1 DEF books
    <3>2. CASE \E n, mirrored : ReversalFacts(job.year, n, mirrored)
      <4>1. PICK n, mirrored : ReversalFacts(job.year, n, mirrored)
        BY <3>2
      <4>2. mirrored \subseteq LegType
        BY <2>t, <4>1, MirrorType DEF ReversalFacts, JobType
      <4> QED
        BY <2>t, <4>1, <4>2, PairsBalance DEF ReversalFacts
    <3> QED
      BY <2>5, <3>1, <3>2, ReverseIs
  <2>6. \/ \E y \in Years, p \in Postings : SaveJournal(y, p)
        \/ \E y \in Years : EditJournal(y)
        \/ \E v \in vouchers : DeleteVoucher(v)
        \/ ClosePost
        \/ ReopenReverse
        \/ bal' = bal
    BY DEF Next, vars, SaveChallan, LockYear, NextYear, CloseRead, CloseFail, ReopenUnlock,
           ReopenAbort, ReopenClear, Crash
  <2> QED
    BY <2>1, <2>2, <2>3, <2>4, <2>5, <2>6
<1> QED
  BY <1>1, <1>2, TypeCorrect, PTL DEF Spec
-----------------------------------------------------------------------------
(* What a close or reopen under way may rely on: nothing else moves the     *)
(* setting or the lock of its year between its steps.                       *)

JobInv ==
    /\ job.op = "close" => key[job.year] = NoKey /\ status[job.year] = "open"
    /\ job.op = "reverse" => key[job.year] \notin {NoKey, NoVoucher}
    /\ job.op = "clear" => key[job.year] # NoKey

LEMMA IdleJob == ASSUME job = Idle PROVE JobInv
  BY DEF JobInv, Idle

LEMMA JobInvStep == TypeOK /\ JobInv /\ [Next]_vars => JobInv'
<1> SUFFICES ASSUME TypeOK, JobInv, [Next]_vars PROVE JobInv'
  OBVIOUS
<1> USE ConstantsAssumption
<1>t. /\ key \in [Years -> NoKey..MaxNo] /\ job \in JobType
      /\ status \in [Years -> {"open", "locked"}]
  BY DEF TypeOK, JobType
<1>1. CASE job' = Idle
  BY <1>1 DEF JobInv, Idle
<1>2. ASSUME NEW y \in Years, CloseRead(y) PROVE JobInv'
  BY <1>2 DEF CloseRead, JobInv
<1>3. ASSUME NEW y \in Years, ReopenUnlock(y) PROVE JobInv'
  <2>1. job'.year = y /\ job'.op = IF key[y] = NoVoucher THEN "clear" ELSE "reverse"
    BY <1>3 DEF ReopenUnlock, Idle
  <2> QED
    BY <1>3, <2>1 DEF ReopenUnlock, JobInv
<1>4. CASE ReopenReverse
  <2>1. job.op = "reverse" /\ job'.op = "clear" /\ job'.year = job.year /\ key' = key
    BY <1>4, <1>t DEF ReopenReverse, JobType
  <2> QED
    BY <2>1 DEF JobInv
<1>5. CASE job' = job /\ key' = key /\ (status' = status \/ job = Idle)
  BY <1>5 DEF JobInv, Idle
<1>6. \/ job' = Idle
      \/ \E y \in Years : CloseRead(y)
      \/ \E y \in Years : ReopenUnlock(y)
      \/ ReopenReverse
      \/ job' = job /\ key' = key /\ (status' = status \/ job = Idle)
  BY DEF Next, vars, SaveJournal, EditJournal, DeleteVoucher, SaveChallan, LockYear, NextYear, ClosePost,
         CloseFail, ReopenAbort, ReopenClear, Crash
<1> QED
  BY <1>1, <1>2, <1>3, <1>4, <1>5, <1>6

LEMMA JobInvariant == Spec => []JobInv
<1>1. Init => JobInv
  BY IdleJob DEF Init
<1> QED
  BY <1>1, TypeCorrect, JobInvStep, PTL DEF Spec
-----------------------------------------------------------------------------
(* The lock *)

\* A posting dated in one year leaves the turnover of every other alone.
LEMMA PostTurnover ==
    ASSUME NEW b \in Balances, NEW yr \in Years, NEW y \in Years, y # yr,
           NEW dr, NEW cr, NEW amt \in Int, NEW a \in Ledgers
    PROVE  Turnover(Post(b, yr, dr, cr, amt), y, a) = Turnover(b, y, a)
<1>1. y \in 0..LastYear /\ y - 1 \in 0..LastYear /\ y \in Int /\ yr \in Int
  BY ConstantsAssumption DEF Years
<1>2. b[y][a] \in Int /\ b[y - 1][a] \in Int
  BY <1>1 DEF Balances
<1> DEFINE d == (IF a = dr THEN amt ELSE 0) - (IF a = cr THEN amt ELSE 0)
<1>3. d \in Int
  OBVIOUS
<1>4. CASE y < yr
  BY <1>1, <1>4 DEF Post, Turnover
<1>5. CASE yr < y
  <2>1. ~ (y < yr) /\ ~ (y - 1 < yr)
    BY <1>1, <1>5
  <2>2. /\ Post(b, yr, dr, cr, amt)[y][a] = b[y][a] + d
        /\ Post(b, yr, dr, cr, amt)[y - 1][a] = b[y - 1][a] + d
    BY <1>1, <1>2, <2>1 DEF Post
  <2> QED
    BY <1>2, <1>3, <2>2 DEF Turnover
<1> QED
  BY <1>1, <1>4, <1>5

\* Neither does posting or taking out pairs that are dated in other years.
LEMMA PairsTurnover ==
    ASSUME NEW b \in Balances, NEW pairs, pairs \subseteq LegType, NEW y \in Years,
           \A l \in pairs : l.yr # y, NEW a \in Ledgers
    PROVE  /\ Turnover(PostAll(b, pairs), y, a) = Turnover(b, y, a)
           /\ Turnover(Unposted(b, pairs), y, a) = Turnover(b, y, a)
<1>1. ASSUME NEW c \in Balances, NEW s, s \subseteq LegType, \A l \in s : l.yr # y
      PROVE  Turnover(PostPair(c, s), y, a) = Turnover(c, y, a)
  <2>1. ASSUME NEW l \in s
        PROVE  Turnover(Post(c, l.yr, l.dr, l.cr, l.amt), y, a) = Turnover(c, y, a)
    <3>1. l.yr \in Years /\ l.amt \in Int /\ y # l.yr
      BY <1>1 DEF LegType
    <3> QED
      BY <3>1, PostTurnover
  <2> QED
    BY <2>1, PostPairIs
<1>2. ASSUME NEW s, s \subseteq LegType, \A l \in s : l.yr # y
      PROVE  Turnover(PostAll(b, s), y, a) = Turnover(b, y, a)
  <2> DEFINE e == {l \in s : l.by = "edit"}
             m == {l \in s : l.by = "mirror"}
             r == {l \in s : l.by \notin {"edit", "mirror"}}
  <2>1. /\ e \subseteq LegType /\ m \subseteq LegType /\ r \subseteq LegType
        /\ \A l \in e : l.yr # y
        /\ \A l \in m : l.yr # y
        /\ \A l \in r : l.yr # y
    BY <1>2
  <2>2. PostAll(b, s) = PostPair(PostPair(PostPair(b, e), m), r)
    BY DEF PostAll
  <2> HIDE DEF e, m, r
  <2>3. PostPair(b, e) \in Balances /\ PostPair(PostPair(b, e), m) \in Balances
    BY <2>1, PostPairType
  <2> QED
    BY <1>1, <2>1, <2>2, <2>3
<1>3. Unposted(b, pairs) = PostAll(b, Swapped(pairs))
  BY DEF Unposted, Swapped
<1>4. Swapped(pairs) \subseteq LegType /\ \A m \in Swapped(pairs) : m.yr # y
  BY SwappedType
<1> QED
  BY <1>2, <1>3, <1>4

\* A step adds and changes nothing dated in year y, and moves its turnover only by
\* taking legs away.
OnlyLoses(y) ==
    /\ {v \in vouchers' : v.yr = y} \subseteq vouchers
    /\ {l \in legs' : l.yr = y} \subseteq legs
    /\ {l \in legs : l.yr = y} \subseteq legs' =>
           \A a \in Ledgers : Turnover(bal', y, a) = Turnover(bal, y, a)

LEMMA EditOnlyLoses ==
    ASSUME TypeOK, NEW z \in Years, NEW y \in Years, y # z, NEW target, NEW no, NEW old, NEW p,
           EditFacts(z, target, no, old, p)
    PROVE  OnlyLoses(y)
<1> DEFINE x == Leg(no, z, z, p[1], p[2], p[3], "edit")
           gone == LegsUnder(no) \ LegsUnder(old)
           b1 == Unposted(bal, LegsUnder(old))
           b2 == Unposted(b1, gone)
<1>1. x.yr = z /\ \A h : Journal(no, z, z, "user", 0).yr = z
  BY DEF Leg, Journal
<1>2. {v \in vouchers' : v.yr = y} \subseteq vouchers
  BY <1>1 DEF EditFacts
<1>3. legs' = (legs \ (LegsUnder(old) \cup LegsUnder(no))) \cup {x}
  BY DEF EditFacts
<1>4. {l \in legs' : l.yr = y} \subseteq legs
  BY <1>1, <1>3
<1>5. ASSUME {l \in legs : l.yr = y} \subseteq legs', NEW a \in Ledgers
      PROVE  Turnover(bal', y, a) = Turnover(bal, y, a)
  <2>1. \A l \in LegsUnder(old) \cup LegsUnder(no) : l.yr # y
    BY <1>1, <1>3, <1>5 DEF LegsUnder
  <2>2. /\ LegsUnder(old) \subseteq LegType /\ \A l \in LegsUnder(old) : l.yr # y
        /\ gone \subseteq LegType /\ \A l \in gone : l.yr # y
    BY <2>1 DEF LegsUnder, TypeOK
  <2>3. bal \in Balances
    BY DEF TypeOK, Balances
  <2>4. b1 \in Balances /\ Turnover(b1, y, a) = Turnover(bal, y, a)
    BY <2>2, <2>3, UnpostedType, PairsTurnover
  <2>5. b2 \in Balances /\ Turnover(b2, y, a) = Turnover(b1, y, a)
    <3> HIDE DEF b1, gone
    <3> QED
      BY <2>2, <2>4, UnpostedType, PairsTurnover
  <2>6. p[3] \in Int
    BY RowsType DEF EditFacts
  <2>7. bal' = Post(b2, z, p[1], p[2], p[3])
    BY DEF EditFacts
  <2> HIDE DEF b1, b2
  <2> QED
    BY <2>4, <2>5, <2>6, <2>7, PostTurnover
<1> QED
  BY <1>2, <1>4, <1>5 DEF OnlyLoses

\* What the year lock gives: while a year is locked, no header and no leg dated in
\* it is added or changed, by a save, an edit, a close or a reversal, and its
\* turnover stays unless a leg goes.  The challan does not read the lock at all.
THEOREM LockOnlyLoses ==
    ASSUME "challan" \notin Writers PROVE Spec => LockedYearOnlyLoses
<1> USE ConstantsAssumption
<1>1. TypeOK /\ JobInv /\ [Next]_vars
        => [\A y \in Years : status[y] = "locked" => OnlyLoses(y)]_vars
  <2> SUFFICES ASSUME TypeOK, JobInv, Next, NEW y \in Years, status[y] = "locked"
               PROVE  OnlyLoses(y)
    BY DEF vars, OnlyLoses
  <2>t. /\ bal \in Balances /\ legs \subseteq LegType /\ job \in JobType /\ today \in Years
    BY DEF TypeOK, Balances, JobType
  <2>1. ASSUME NEW z \in Years, NEW p \in Postings, SaveJournal(z, p) PROVE OnlyLoses(y)
    <3>1. z # y /\ p[3] \in Int
      BY <2>1 DEF SaveJournal, Writable
    <3>2. PICK n \in NextNo(z) :
             /\ vouchers' = vouchers \cup {Journal(<<z, n>>, z, z, "user", 0)}
             /\ legs' = legs \cup {Leg(<<z, n>>, z, z, p[1], p[2], p[3], "user")}
      BY <2>1 DEF SaveJournal
    <3>3. /\ {v \in vouchers' : v.yr = y} \subseteq vouchers
          /\ {l \in legs' : l.yr = y} \subseteq legs
      BY <3>1, <3>2 DEF Journal, Leg
    <3>4. \A a \in Ledgers : Turnover(bal', y, a) = Turnover(bal, y, a)
      BY <2>1, <2>t, <3>1, PostTurnover DEF SaveJournal
    <3> QED
      BY <3>3, <3>4 DEF OnlyLoses
  <2>2. ASSUME NEW z \in Years, EditJournal(z) PROVE OnlyLoses(y)
    <3>1. PICK target, no, old, p : EditFacts(z, target, no, old, p)
      BY <2>2, EditIs
    <3>2. y # z
      BY <3>1 DEF EditFacts, Writable
    <3> QED
      BY <3>1, <3>2, EditOnlyLoses
  <2>3. ASSUME NEW v \in vouchers, DeleteVoucher(v) PROVE OnlyLoses(y)
    <3>1. vouchers' \subseteq vouchers /\ legs' = legs \ LegsUnder(v.no)
      BY <2>3 DEF DeleteVoucher
    <3>2. ASSUME {l \in legs : l.yr = y} \subseteq legs', NEW a \in Ledgers
          PROVE  Turnover(bal', y, a) = Turnover(bal, y, a)
      <4>1. LegsUnder(v.no) \subseteq LegType /\ \A l \in LegsUnder(v.no) : l.yr # y
        BY <2>t, <3>1, <3>2 DEF LegsUnder
      <4> QED
        BY <2>3, <2>t, <4>1, PairsTurnover DEF DeleteVoucher
    <3> QED
      BY <3>1, <3>2 DEF OnlyLoses
  <2>4. CASE ClosePost
    <3>1. job.year \in Years /\ job.year # y /\ job.net \in Int
      BY <2>4, <2>t DEF JobInv, JobType, ClosePost
    <3>2. PICK n : CloseFacts(job.year, n)
      BY <2>4, CloseIs
    <3>3. /\ {v \in vouchers' : v.yr = y} \subseteq vouchers
          /\ {l \in legs' : l.yr = y} \subseteq legs
      BY <3>1, <3>2 DEF CloseFacts, Journal, Leg
    <3>4. \A a \in Ledgers : Turnover(bal', y, a) = Turnover(bal, y, a)
      BY <2>4, <2>t, <3>1, PostTurnover DEF ClosePost
    <3> QED
      BY <3>3, <3>4 DEF OnlyLoses
  <2>5. CASE ReopenReverse
    <3> DEFINE z == job.year
    <3>1. CASE UNCHANGED books
      BY <3>1 DEF OnlyLoses, books
    <3>2. CASE \E n, mirrored : ReversalFacts(z, n, mirrored)
      <4>1. PICK n, mirrored : ReversalFacts(z, n, mirrored)
        BY <3>2
      <4>2. today # y
        BY <4>1 DEF ReversalFacts, Writable
      <4>3. mirrored \subseteq LegType
        BY <2>t, <4>1, MirrorType DEF ReversalFacts, JobType
      <4>4. \A l \in mirrored : l.yr = today
        BY <4>1 DEF ReversalFacts, Mirror, Leg
      <4>5. /\ {v \in vouchers' : v.yr = y} \subseteq vouchers
            /\ {l \in legs' : l.yr = y} \subseteq legs
        BY <4>1, <4>2, <4>4 DEF ReversalFacts, Journal
      <4>6. \A a \in Ledgers : Turnover(bal', y, a) = Turnover(bal, y, a)
        BY <2>t, <4>1, <4>2, <4>3, <4>4, PairsTurnover DEF ReversalFacts
      <4> QED
        BY <4>5, <4>6 DEF OnlyLoses
    <3> QED
      BY <2>5, <3>1, <3>2, ReverseIs
  <2>6. CASE UNCHANGED books
    BY <2>6 DEF OnlyLoses, books
  <2>7. \/ \E z \in Years, p \in Postings : SaveJournal(z, p)
        \/ \E z \in Years : EditJournal(z)
        \/ \E v \in vouchers : DeleteVoucher(v)
        \/ ClosePost
        \/ ReopenReverse
        \/ UNCHANGED books
    BY DEF Next, vars, SaveChallan, LockYear, NextYear, CloseRead, CloseFail, ReopenUnlock,
           ReopenAbort, ReopenClear, Crash, books
  <2> QED
    BY <2>1, <2>2, <2>3, <2>4, <2>5, <2>6, <2>7
<1>2. [\A y \in Years : status[y] = "locked" => OnlyLoses(y)]_vars
        <=> [\A y \in Years : status[y] = "locked" =>
                /\ {v \in vouchers' : v.yr = y} \subseteq vouchers
                /\ {l \in legs' : l.yr = y} \subseteq legs
                /\ {l \in legs : l.yr = y} \subseteq legs' =>
                       \A a \in Ledgers : Turnover(bal', y, a) = Turnover(bal, y, a)]_vars
  BY DEF OnlyLoses
<1> QED
  BY <1>1, <1>2, TypeCorrect, JobInvariant, PTL DEF Spec, LockedYearOnlyLoses
-----------------------------------------------------------------------------
(* The setting *)

\* The closing voucher of year y is as the close posted it, or its legs are gone.
Intact(y) == ClosingStands(y) \/ ClosingLegs(y) = {}

\* What the setting of a year means, also while its reopen is under way: the
\* lock is already off, and until the reversal nothing else has touched the
\* closing voucher.
KeyInv ==
    \A y \in Years : key[y] # NoKey =>
        \/ status[y] = "locked" /\ (key[y] # NoVoucher => Intact(y))
        \/ job.op = "reverse" /\ job.year = y /\ Intact(y)
        \/ job.op = "clear" /\ job.year = y

LEMMA KeyInvImplies == KeyInv => KeyMeansClosed
  BY DEF KeyInv, KeyMeansClosed, Intact, Idle

\* An edit or a deletion takes all the legs under a number, with the header it is
\* found by, or leaves them all alone.
KeptOrLost(z) ==
    \/ ClosingLegs(z)' = {}
    \/ ClosingLegs(z)' = ClosingLegs(z) /\ ClosingHeader(z) \subseteq ClosingHeader(z)'

LEMMA KeptOrLostIntact ==
    ASSUME NEW z, KeptOrLost(z), Intact(z) PROVE Intact(z)'
  BY DEF KeptOrLost, Intact, ClosingStands

LEMMA EditKeepsOrLoses ==
    ASSUME NEW y, NEW z, z # y, NEW target, NEW no, NEW old, NEW p,
           EditFacts(y, target, no, old, p)
    PROVE  KeptOrLost(z)
<1> DEFINE x == Leg(no, y, y, p[1], p[2], p[3], "edit")
           c == ClosingNo(z)
<1>1. x.fy # z
  BY DEF Leg
<1>2. ClosingNo(z)' = c
  BY DEF EditFacts, ClosingNo
<1>3. legs' = (legs \ (LegsUnder(old) \cup LegsUnder(no))) \cup {x}
  BY DEF EditFacts
<1> HIDE DEF x, c
<1>4. ClosingLegs(z) = {l \in legs : l.fy = z /\ l.no = c}
  BY DEF ClosingLegs, c
<1>5. ClosingLegs(z)' = {l \in legs' : l.fy = z /\ l.no = c}
  BY <1>2 DEF ClosingLegs
<1>6. CASE c \in {old, no}
  BY <1>1, <1>3, <1>5, <1>6 DEF LegsUnder, KeptOrLost
<1>7. CASE c \notin {old, no}
  <2>1. ClosingLegs(z)' = ClosingLegs(z)
    BY <1>1, <1>3, <1>4, <1>5, <1>7 DEF LegsUnder
  <2>2. \A h \in target : h.no = old
    BY DEF EditFacts
  <2>3. vouchers \ target \subseteq vouchers'
    BY DEF EditFacts
  <2>4. ClosingHeader(z) = {v \in vouchers : v.fy = z /\ v.no = c}
    BY DEF ClosingHeader, c
  <2>5. ClosingHeader(z)' = {v \in vouchers' : v.fy = z /\ v.no = c}
    BY <1>2 DEF ClosingHeader
  <2>6. ClosingHeader(z) \subseteq ClosingHeader(z)'
    BY <1>7, <2>2, <2>3, <2>4, <2>5
  <2> QED
    BY <2>1, <2>6 DEF KeptOrLost
<1> QED
  BY <1>6, <1>7

LEMMA DeleteKeepsOrLoses ==
    ASSUME NEW v, DeleteVoucher(v), NEW z
    PROVE  KeptOrLost(z)
<1> DEFINE c == ClosingNo(z)
<1>1. ClosingNo(z)' = c
  BY DEF DeleteVoucher, ClosingNo
<1> HIDE DEF c
<1>2. /\ ClosingLegs(z) = {l \in legs : l.fy = z /\ l.no = c}
      /\ ClosingHeader(z) = {u \in vouchers : u.fy = z /\ u.no = c}
  BY DEF ClosingLegs, ClosingHeader, c
<1>3. /\ ClosingLegs(z)' = {l \in legs' : l.fy = z /\ l.no = c}
      /\ ClosingHeader(z)' = {u \in vouchers' : u.fy = z /\ u.no = c}
  BY <1>1 DEF ClosingLegs, ClosingHeader
<1>4. legs' = legs \ LegsUnder(v.no) /\ vouchers' = vouchers \ {v}
  BY DEF DeleteVoucher
<1>5. CASE c = v.no
  BY <1>3, <1>4, <1>5 DEF LegsUnder, KeptOrLost
<1>6. CASE c # v.no
  BY <1>2, <1>3, <1>4, <1>6 DEF LegsUnder, KeptOrLost
<1> QED
  BY <1>5, <1>6

\* What comes into the books under the label of another year changes nothing.
LEMMA OtherLabel ==
    ASSUME NEW z, key'[z] = key[z], vouchers \subseteq vouchers', legs \subseteq legs',
           \A l \in legs' \ legs : l.fy # z
    PROVE  /\ ClosingLegs(z)' = ClosingLegs(z)
           /\ KeptOrLost(z)
<1>1. ClosingNo(z)' = ClosingNo(z)
  BY DEF ClosingNo
<1>2. ClosingLegs(z)' = ClosingLegs(z)
  BY <1>1 DEF ClosingLegs
<1>3. ClosingHeader(z) \subseteq ClosingHeader(z)'
  BY <1>1 DEF ClosingHeader
<1> QED
  BY <1>2, <1>3 DEF KeptOrLost

\* While settings and jobs stay and no lock comes off, it is enough that the
\* vouchers of closed years stay intact.
LEMMA KeyInvKept ==
    ASSUME KeyInv, key' = key, job' = job,
           \A y \in Years : status[y] = "locked" => status'[y] = "locked",
           \A y \in Years : key[y] # NoKey => KeptOrLost(y)
    PROVE  KeyInv'
<1>1. \A y \in Years : key[y] # NoKey /\ Intact(y) => Intact(y)'
  BY KeptOrLostIntact
<1> QED
  BY <1>1 DEF KeyInv

LEMMA SameBooks ==
    ASSUME NEW z, key'[z] = key[z], UNCHANGED <<vouchers, legs>>
    PROVE  ClosingLegs(z)' = ClosingLegs(z) /\ KeptOrLost(z)
  BY OtherLabel

LEMMA KeyInvStep ==
    ASSUME Faults = {}
    PROVE  TypeOK /\ JobInv /\ KeyInv /\ [Next]_vars => KeyInv'
<1> USE ConstantsAssumption
<1> SUFFICES ASSUME TypeOK, JobInv, KeyInv, [Next]_vars PROVE KeyInv'
  OBVIOUS
<1>t. /\ key \in [Years -> NoKey..MaxNo] /\ job \in JobType
      /\ status \in [Years -> {"open", "locked"}]
  BY DEF TypeOK, JobType
<1>i. ASSUME job = Idle
      PROVE  \A z \in Years : key[z] # NoKey =>
                 status[z] = "locked" /\ (key[z] # NoVoucher => Intact(z))
  BY <1>i DEF KeyInv, Idle
<1>1. ASSUME NEW y \in Years, NEW p \in Postings, SaveJournal(y, p) PROVE KeyInv'
  <2>1. PICK n \in NextNo(y) :
             /\ vouchers' = vouchers \cup {Journal(<<y, n>>, y, y, "user", 0)}
             /\ legs' = legs \cup {Leg(<<y, n>>, y, y, p[1], p[2], p[3], "user")}
    BY <1>1 DEF SaveJournal
  <2>2. key' = key /\ job' = job /\ status' = status /\ job = Idle /\ status[y] = "open"
    BY <1>1 DEF SaveJournal, Writable
  <2>3. \A z \in Years : key[z] # NoKey => z # y
    BY <1>i, <2>2
  <2>4. \A l \in legs' \ legs : l.fy = y
    BY <2>1 DEF Leg
  <2>5. \A z \in Years : key[z] # NoKey => KeptOrLost(z)
    BY <2>1, <2>2, <2>3, <2>4, OtherLabel
  <2> QED
    BY <2>2, <2>5, KeyInvKept
<1>2. ASSUME NEW y \in Years, EditJournal(y) PROVE KeyInv'
  <2>1. PICK target, no, old, p : EditFacts(y, target, no, old, p)
    BY <1>2, EditIs
  <2>2. key' = key /\ job' = job /\ status' = status /\ job = Idle /\ status[y] = "open"
    BY <2>1 DEF EditFacts, Writable
  <2>3. \A z \in Years : key[z] # NoKey => z # y
    BY <1>i, <2>2
  <2>4. \A z \in Years : key[z] # NoKey => KeptOrLost(z)
    BY <2>1, <2>3, EditKeepsOrLoses
  <2> QED
    BY <2>2, <2>4, KeyInvKept
<1>3. ASSUME NEW v \in vouchers, DeleteVoucher(v) PROVE KeyInv'
  BY <1>3, DeleteKeepsOrLoses, KeyInvKept DEF DeleteVoucher
<1>4. ASSUME NEW y \in Years, NEW i \in {0, 1}, NEW h \in BOOLEAN,
             SaveChallan(y, 1, i, h)
      PROVE  KeyInv'
  BY <1>4, SameBooks, KeyInvKept DEF SaveChallan
<1>5. ASSUME NEW y \in Years, LockYear(y) PROVE KeyInv'
  <2>1. \A z \in Years : status[z] = "locked" => status'[z] = "locked"
    BY <1>5, <1>t DEF LockYear
  <2> QED
    BY <1>5, <2>1, SameBooks, KeyInvKept DEF LockYear
<1>6. CASE NextYear \/ UNCHANGED vars
  <2>1. UNCHANGED <<key, job, status, vouchers, legs>>
    BY <1>6 DEF NextYear, vars
  <2> QED
    BY <2>1, SameBooks, KeyInvKept
<1>7. ASSUME NEW y \in Years, CloseRead(y) PROVE KeyInv'
  <2>1. UNCHANGED <<key, status, vouchers, legs>> /\ job = Idle
    BY <1>7 DEF CloseRead
  <2>2. \A z \in Years : Intact(z) => Intact(z)'
    BY <2>1, SameBooks, KeptOrLostIntact
  <2> QED
    BY <1>i, <2>1, <2>2 DEF KeyInv
<1>8. CASE ClosePost
  <2>0. PICK y \in Years : y = job.year
    BY <1>t DEF JobType
  <2>1. PICK n : CloseFacts(y, n)
    BY <1>8, <2>0, CloseIs
  <2>2. status' = [status EXCEPT ![y] = "locked"] /\ job.op = "close"
    BY <1>8, <2>0 DEF ClosePost
  <2>3. \A z \in Years : key'[z] = IF z = y THEN n ELSE key[z]
    BY <1>t, <2>1 DEF CloseFacts
  <2>4. \A z \in Years : status'[z] = IF z = y THEN "locked" ELSE status[z]
    BY <1>t, <2>2
  <2>5. n # NoVoucher => Intact(y)'
    <3> SUFFICES ASSUME n # NoVoucher PROVE ClosingStands(y)'
      BY DEF Intact
    <3> DEFINE v == Journal(<<y, n>>, y, y, "close", 0)
               l == Leg(<<y, n>>, y, y, "pl", "capital", job.net, "close")
    <3>1. v \in vouchers' /\ l \in legs'
      BY <2>1 DEF CloseFacts
    <3>2. /\ v.fy = y /\ v.yr = y /\ v.no = <<y, n>> /\ v.ref = "close"
          /\ l.fy = y /\ l.yr = y /\ l.no = <<y, n>> /\ l.by = "close"
          /\ l.dr = "pl" /\ l.cr = "capital"
      BY DEF Journal, Leg
    <3> HIDE DEF v, l
    <3>3. ClosingNo(y)' = <<y, n>>
      BY <2>3 DEF ClosingNo
    <3>4. v \in ClosingHeader(y)' /\ l \in ClosingLegs(y)'
      BY <3>1, <3>2, <3>3 DEF ClosingHeader, ClosingLegs
    <3> QED
      BY <3>2, <3>4 DEF ClosingStands
  <2>6. ASSUME NEW z \in Years, z # y PROVE Intact(z) => Intact(z)'
    <3>1. \A l \in legs' \ legs : l.fy = y
      BY <2>1 DEF CloseFacts, Leg
    <3>2. vouchers \subseteq vouchers' /\ legs \subseteq legs'
      BY <2>1 DEF CloseFacts
    <3>3. KeptOrLost(z)
      BY <2>3, <2>6, <3>1, <3>2, OtherLabel
    <3> QED
      BY <3>3, KeptOrLostIntact
  <2> QED
    BY <2>0, <2>2, <2>3, <2>4, <2>5, <2>6 DEF KeyInv
<1>9. CASE CloseFail
  <2>1. UNCHANGED <<key, status, vouchers, legs>> /\ job.op = "close"
    BY <1>9 DEF CloseFail
  <2>2. \A z \in Years : Intact(z) => Intact(z)'
    BY <2>1, SameBooks, KeptOrLostIntact
  <2> QED
    BY <2>1, <2>2 DEF KeyInv
<1>10. ASSUME NEW y \in Years, ReopenUnlock(y) PROVE KeyInv'
  <2>1. job'.year = y /\ job'.op = IF key[y] = NoVoucher THEN "clear" ELSE "reverse"
    BY <1>10 DEF ReopenUnlock, Idle
  <2>2. UNCHANGED <<key, vouchers, legs>> /\ job = Idle
    BY <1>10 DEF ReopenUnlock
  <2>3. \A z \in Years : Intact(z) => Intact(z)'
    BY <2>2, SameBooks, KeptOrLostIntact
  <2>4. \A z \in Years : z # y => status'[z] = status[z]
    BY <1>10, <1>t DEF ReopenUnlock
  <2> QED
    BY <1>i, <2>1, <2>2, <2>3, <2>4 DEF KeyInv
<1>11. CASE ReopenReverse
  <2>0. PICK y \in Years : y = job.year
    BY <1>t DEF JobType
  <2>1. /\ key' = key /\ status' = status
        /\ job.op = "reverse" /\ job'.op = "clear" /\ job'.year = y
    BY <1>11, <1>t, <2>0 DEF ReopenReverse, JobType
  <2>2. /\ vouchers \subseteq vouchers' /\ legs \subseteq legs'
        /\ \A l \in legs' \ legs : l.fy = y
    <3>1. CASE UNCHANGED books
      BY <3>1 DEF books
    <3>2. CASE \E n, mirrored : ReversalFacts(y, n, mirrored)
      <4>1. PICK n, mirrored : ReversalFacts(y, n, mirrored)
        BY <3>2
      <4>2. \A l \in mirrored : l.fy = y
        BY <4>1 DEF ReversalFacts, Mirror, Leg
      <4> QED
        BY <4>1, <4>2 DEF ReversalFacts
    <3> QED
      BY <1>11, <2>0, <3>1, <3>2, ReverseIs
  <2>3. \A z \in Years : z # y /\ Intact(z) => Intact(z)'
    BY <2>1, <2>2, OtherLabel, KeptOrLostIntact
  <2> QED
    BY <2>0, <2>1, <2>3 DEF KeyInv
<1>12. CASE ReopenAbort
  <2>1. /\ job.op = "reverse" /\ UNCHANGED <<key, vouchers, legs>>
        /\ status' = [status EXCEPT ![job.year] = "locked"]
    BY <1>12 DEF ReopenAbort
  <2>2. \A z \in Years : Intact(z) => Intact(z)'
    BY <2>1, SameBooks, KeptOrLostIntact
  <2>3. \A z \in Years : status'[z] = IF z = job.year THEN "locked" ELSE status[z]
    BY <1>t, <2>1
  <2> QED
    BY <2>1, <2>2, <2>3 DEF KeyInv
<1>13. CASE ReopenClear
  <2>1. /\ job.op = "clear" /\ key' = [key EXCEPT ![job.year] = NoKey]
        /\ UNCHANGED <<status, vouchers, legs>>
    BY <1>13 DEF ReopenClear
  <2>2. \A z \in Years : key'[z] = IF z = job.year THEN NoKey ELSE key[z]
    BY <1>t, <2>1
  <2>3. \A z \in Years : z # job.year /\ Intact(z) => Intact(z)'
    BY <2>1, <2>2, SameBooks, KeptOrLostIntact
  <2> QED
    BY <2>1, <2>2, <2>3 DEF KeyInv
<1>14. ~ Crash
  BY DEF Crash
<1> QED
  BY <1>1, <1>2, <1>3, <1>4, <1>5, <1>6, <1>7, <1>8, <1>9, <1>10, <1>11, <1>12, <1>13,
     <1>14 DEF Next

\* Between two operations the setting fy_close_voucher/<fy> names the closing
\* voucher as it was posted, or nothing any more, and its year is locked: whatever
\* is posted, edited, deleted or locked and however a close or reopen is refused,
\* as long as no crash or locked database comes between the commits of a reopen.
THEOREM KeyIsTrue ==
    ASSUME Faults = {} PROVE Spec => []KeyMeansClosed
<1>1. Init => KeyInv
  BY DEF Init, KeyInv
<1>2. TypeOK /\ JobInv /\ KeyInv /\ [Next]_vars => KeyInv'
  BY KeyInvStep
<1> QED
  BY <1>1, <1>2, TypeCorrect, JobInvariant, KeyInvImplies, PTL DEF Spec
-----------------------------------------------------------------------------
(* One transfer per year *)

Reversed(y, n) == \E r \in vouchers : r.ref = "reversal" /\ r.fy = y /\ r.of = n

\* A reopen clears the setting only after what it names is reversed.
LiveInv ==
    /\ \A v \in vouchers : v.ref = "close" => key[v.fy] = v.no[2] \/ Reversed(v.fy, v.no[2])
    /\ job.op = "clear" /\ key[job.year] # NoVoucher => Reversed(job.year, key[job.year])

LEMMA LiveInvImplies == LiveInv => LiveClosingIsRecorded
  BY DEF LiveInv, LiveClosingIsRecorded, Reversed

LEMMA ReversedStays ==
    ASSUME vouchers \subseteq vouchers', NEW y, NEW n, Reversed(y, n)
    PROVE  Reversed(y, n)'
  BY DEF Reversed

\* While no setting moves, a step that adds no closing voucher and enters no
\* third commit of a reopen is harmless.
LEMMA LiveInvKept ==
    ASSUME LiveInv, vouchers \subseteq vouchers', key' = key,
           \A v \in vouchers' \ vouchers : v.ref # "close",
           job' = job \/ job'.op # "clear"
    PROVE  LiveInv'
  BY ReversedStays DEF LiveInv

\* Through crashes between the commits of a reopen, failed transactions and
\* challans posted meanwhile, a closing voucher nothing has reversed is the one
\* its year's setting names: the profit of a year is transferred twice only
\* after a first transfer was taken back.  A closing voucher that is edited or
\* deleted by hand is not covered.
THEOREM OneLiveClosing ==
    ASSUME "edit" \notin Writers, "delete" \notin Writers
    PROVE  Spec => []LiveClosingIsRecorded
<1> USE ConstantsAssumption
<1>1. Init => LiveInv
  BY DEF Init, LiveInv, Idle
<1>2. TypeOK /\ JobInv /\ LiveInv /\ [Next]_vars => LiveInv'
  <2> SUFFICES ASSUME TypeOK, JobInv, LiveInv, [Next]_vars PROVE LiveInv'
    OBVIOUS
  <2>t. /\ key \in [Years -> NoKey..MaxNo] /\ job \in JobType
        /\ vouchers \subseteq VoucherType
        /\ \A v \in vouchers : v.no[2] \in 1..MaxNo /\ v.fy \in Years
        /\ Idle.op # "clear"
    BY DEF TypeOK, JobType, VoucherType, Idle
  <2>0. PICK z \in Years : z = job.year
    BY <2>t DEF JobType
  <2>1. ASSUME NEW y \in Years, NEW p \in Postings, SaveJournal(y, p) PROVE LiveInv'
    <3>1. PICK n : vouchers' = vouchers \cup {Journal(<<y, n>>, y, y, "user", 0)}
      BY <2>1 DEF SaveJournal
    <3>2. \A v \in vouchers' \ vouchers : v.ref # "close"
      BY <3>1 DEF Journal
    <3> QED
      BY <2>1, <3>1, <3>2, LiveInvKept DEF SaveJournal
  <2>2. ASSUME NEW y \in Years, NEW i \in {0, 1}, NEW h \in BOOLEAN,
               SaveChallan(y, 1, i, h)
        PROVE  LiveInv'
    BY <2>2, LiveInvKept DEF SaveChallan
  <2>3. ASSUME NEW y \in Years, LockYear(y) PROVE LiveInv'
    BY <2>3, LiveInvKept DEF LockYear
  <2>4. CASE NextYear
    BY <2>4, LiveInvKept DEF NextYear
  <2>5. ASSUME NEW y \in Years, CloseRead(y) PROVE LiveInv'
    BY <2>5, LiveInvKept DEF CloseRead
  <2>6. CASE ClosePost
    <3>1. PICK n : CloseFacts(z, n)
      BY <2>0, <2>6, CloseIs
    <3>2. key[z] = NoKey /\ job' = Idle
      BY <2>0, <2>6 DEF ClosePost, JobInv
    <3>3. \A y \in Years : key'[y] = IF y = z THEN n ELSE key[y]
      BY <2>t, <3>1 DEF CloseFacts
    <3>4. ASSUME NEW v \in vouchers', v.ref = "close"
          PROVE  key'[v.fy] = v.no[2] \/ Reversed(v.fy, v.no[2])'
      <4>1. CASE v \in vouchers
        <5>1. key[v.fy] = v.no[2] \/ Reversed(v.fy, v.no[2])
          BY <3>4, <4>1 DEF LiveInv
        <5>2. v.fy = z => key[v.fy] # v.no[2]
          BY <2>t, <3>2, <4>1 DEF NoKey
        <5>3. vouchers \subseteq vouchers'
          BY <3>1 DEF CloseFacts
        <5>4. Reversed(v.fy, v.no[2]) => Reversed(v.fy, v.no[2])'
          BY <5>3, ReversedStays
        <5> QED
          BY <2>t, <3>3, <4>1, <5>1, <5>2, <5>4
      <4>2. CASE v \notin vouchers
        <5>1. v = Journal(<<z, n>>, z, z, "close", 0)
          BY <3>1, <4>2 DEF CloseFacts
        <5>2. v.fy = z /\ v.no[2] = n
          BY <5>1 DEF Journal
        <5> QED
          BY <3>3, <5>2
      <4> QED
        BY <4>1, <4>2
    <3> QED
      BY <2>t, <3>2, <3>4 DEF LiveInv
  <2>7. CASE CloseFail \/ ReopenAbort \/ Crash
    BY <2>7, <2>t, LiveInvKept DEF CloseFail, ReopenAbort, Crash
  <2>8. ASSUME NEW y \in Years, ReopenUnlock(y) PROVE LiveInv'
    <3>1. job'.op = IF key[y] = NoVoucher THEN "clear" ELSE "reverse"
      BY <2>8 DEF ReopenUnlock, Idle
    <3>2. job'.year = y /\ key' = key /\ vouchers' = vouchers
      BY <2>8 DEF ReopenUnlock, Idle
    <3>3. \A u, n : Reversed(u, n) => Reversed(u, n)'
      BY <3>2, ReversedStays
    <3> QED
      BY <3>1, <3>2, <3>3 DEF LiveInv
  <2>9. CASE ReopenReverse
    <3>1. /\ key[z] \in 1..MaxNo /\ key' = key
          /\ job'.op = "clear" /\ job'.year = z
      BY <2>0, <2>9, <2>t DEF ReopenReverse, JobType, JobInv, NoKey, NoVoucher
    <3>2. ~ ReversalExists(z)
      <4>1. RevNo(ClosingNo(z))[2] = - key[z]
        BY DEF RevNo, ClosingNo
      <4> QED
        BY <2>t, <3>1, <4>1 DEF ReversalExists
    <3>3. PICK n, mirrored : ReversalFacts(z, n, mirrored)
      BY <2>0, <2>9, <3>2, ReverseIs
    <3> DEFINE r == Journal(<<z, n>>, z, today, "reversal", key[z])
    <3>4. vouchers' = vouchers \cup {r} /\ r.ref = "reversal" /\ r.fy = z /\ r.of = key[z]
      BY <3>3 DEF ReversalFacts, Journal
    <3> HIDE DEF r
    <3>5. Reversed(z, key[z])'
      BY <3>1, <3>4 DEF Reversed
    <3>6. ASSUME NEW w \in vouchers', w.ref = "close"
          PROVE  key'[w.fy] = w.no[2] \/ Reversed(w.fy, w.no[2])'
      <4>1. w \in vouchers
        BY <3>4, <3>6
      <4>2. Reversed(w.fy, w.no[2]) => Reversed(w.fy, w.no[2])'
        BY <3>4, ReversedStays
      <4> QED
        BY <3>1, <3>6, <4>1, <4>2 DEF LiveInv
    <3> QED
      BY <3>1, <3>5, <3>6 DEF LiveInv
  <2>10. CASE ReopenClear
    <3>1. /\ vouchers' = vouchers /\ job' = Idle /\ job.op = "clear"
          /\ key' = [key EXCEPT ![z] = NoKey] \/ key' = key
      BY <2>0, <2>10 DEF ReopenClear
    <3>2. \A y \in Years : key'[y] = key[y] \/ y = z
      BY <2>t, <3>1
    <3>3. ASSUME NEW v \in vouchers, v.ref = "close"
          PROVE  key'[v.fy] = v.no[2] \/ Reversed(v.fy, v.no[2])
      <4>1. key[v.fy] = v.no[2] \/ Reversed(v.fy, v.no[2])
        BY <3>3 DEF LiveInv
      <4>2. v.fy = z /\ key[v.fy] = v.no[2] => Reversed(v.fy, v.no[2])
        BY <2>0, <2>t, <3>1 DEF LiveInv, NoVoucher
      <4> QED
        BY <2>t, <3>2, <4>1, <4>2
    <3>4. \A y, n : Reversed(y, n) => Reversed(y, n)'
      BY <3>1, ReversedStays
    <3> QED
      BY <2>t, <3>1, <3>3, <3>4 DEF LiveInv
  <2>11. CASE UNCHANGED vars
    BY <2>11, LiveInvKept DEF vars
  <2>12. (\A v \in vouchers : ~ DeleteVoucher(v)) /\ (\A y \in Years : ~ EditJournal(y))
    BY DEF DeleteVoucher, EditJournal
  <2> QED
    BY <2>1, <2>2, <2>3, <2>4, <2>5, <2>6, <2>7, <2>8, <2>9, <2>10, <2>11, <2>12 DEF Next
<1> QED
  BY <1>1, <1>2, TypeCorrect, JobInvariant, LiveInvImplies, PTL DEF Spec
-----------------------------------------------------------------------------
(* Completeness of a close *)

\* The net read before the transaction is still the year's when it is used.
NetInv == job.op = "close" => job.net = NetProfit(bal, job.year)

LEMMA NetInvStep ==
    ASSUME "challan" \notin Writers
    PROVE  TypeOK /\ NetInv /\ [Next]_vars => NetInv'
<1> SUFFICES ASSUME TypeOK, NetInv, [Next]_vars PROVE NetInv'
  OBVIOUS
<1>t. job \in JobType
  BY DEF TypeOK, JobType
<1>1. CASE job'.op # "close"
  BY <1>1 DEF NetInv
<1>2. ASSUME NEW y \in Years, CloseRead(y) PROVE NetInv'
  BY <1>2 DEF CloseRead, NetInv, NetProfit, NetDiff, Turnover
<1>3. CASE job' = job /\ bal' = bal
  BY <1>3 DEF NetInv, NetProfit, NetDiff, Turnover
<1>4. \/ job'.op # "close"
      \/ \E y \in Years : CloseRead(y)
      \/ job' = job /\ bal' = bal
  <2>1. ASSUME NEW y \in Years, NEW p \in Postings, SaveJournal(y, p)
        PROVE  job'.op # "close"
    BY <2>1 DEF SaveJournal, Idle
  <2>2. ASSUME (\E v \in vouchers : DeleteVoucher(v)) \/ (\E y \in Years : EditJournal(y))
        PROVE  job'.op # "close"
    BY <2>2 DEF DeleteVoucher, EditJournal, Idle
  <2>3. ASSUME NEW y \in Years, ReopenUnlock(y) PROVE job'.op # "close"
    BY <2>3 DEF ReopenUnlock, Idle
  <2>4. CASE ReopenReverse
    BY <1>t, <2>4 DEF ReopenReverse, JobType
  <2>5. CASE ClosePost \/ CloseFail \/ ReopenAbort \/ ReopenClear \/ Crash
    BY <2>5 DEF ClosePost, CloseFail, ReopenAbort, ReopenClear, Crash, Idle
  <2>6. CASE NextYear \/ (\E y \in Years : LockYear(y)) \/ UNCHANGED vars
    BY <2>6 DEF NextYear, LockYear, vars
  <2>7. \A y, i, h : ~ SaveChallan(y, 1, i, h)
    BY DEF SaveChallan
  <2> QED
    BY <2>1, <2>2, <2>3, <2>4, <2>5, <2>6, <2>7 DEF Next
<1> QED
  BY <1>1, <1>2, <1>3, <1>4

\* The closing journal takes the year's net to capital.
LEMMA ClosingNet ==
    ASSUME NEW b \in Balances, NEW y \in Years, NEW amt \in Int
    PROVE  NetDiff(Post(b, y, "pl", "capital", amt), y) = NetDiff(b, y) - amt
<1> DEFINE c == Post(b, y, "pl", "capital", amt)
<1>1. y \in 0..LastYear /\ y - 1 \in 0..LastYear /\ y - 1 < y /\ ~ (y < y)
  BY ConstantsAssumption DEF Years
<1>2. /\ "trading" \in Ledgers /\ "direct" \in Ledgers /\ "pl" \in Ledgers
      /\ "income" \in Ledgers /\ "expense" \in Ledgers
  BY DEF Ledgers, Nominal
<1>3. \A a \in Ledgers : b[y][a] \in Int /\ b[y - 1][a] \in Int
  BY <1>1 DEF Balances
<1>4. c[y - 1] = b[y - 1]
  BY <1>1 DEF Post
<1>5. \A a \in Ledgers : c[y][a] = b[y][a] + (IF a = "pl" THEN amt ELSE 0)
                                            - (IF a = "capital" THEN amt ELSE 0)
  BY <1>1 DEF Post
<1>6. /\ c[y]["trading"] = b[y]["trading"] /\ c[y]["direct"] = b[y]["direct"]
      /\ c[y]["income"] = b[y]["income"] /\ c[y]["expense"] = b[y]["expense"]
      /\ c[y]["pl"] = b[y]["pl"] + amt
  BY <1>2, <1>3, <1>5
<1>7. \A x \in Int : Pos(x) \in Int
  BY DEF Pos
<1>8. /\ Turnover(b, y, "trading") \in Int /\ Turnover(b, y, "direct") \in Int
      /\ Turnover(b, y, "pl") \in Int
      /\ Turnover(c, y, "trading") = Turnover(b, y, "trading")
      /\ Turnover(c, y, "direct") = Turnover(b, y, "direct")
      /\ Turnover(c, y, "pl") = Turnover(b, y, "pl") + amt
  BY <1>2, <1>3, <1>4, <1>6 DEF Turnover
<1>9. /\ Pos(Turnover(b, y, "direct")) \in Int /\ Pos(- b[y]["income"]) \in Int
      /\ b[y]["expense"] \in Int
  BY <1>2, <1>3, <1>7, <1>8
<1>10. c[y]["income"] = b[y]["income"] /\ c[y]["expense"] = b[y]["expense"]
  BY <1>6
<1> HIDE DEF c
<1>11. NetDiff(c, y) = - Turnover(b, y, "trading") - Pos(Turnover(b, y, "direct"))
                        - (Turnover(b, y, "pl") + amt)
                        + Pos(- b[y]["income"]) - b[y]["expense"]
  BY <1>8, <1>10 DEF NetDiff
<1>12. NetDiff(c, y) = NetDiff(b, y) - amt
  BY <1>8, <1>9, <1>11 DEF NetDiff
<1> QED
  BY <1>12 DEF c

Complete(y) ==
    key[y] = NoKey /\ key'[y] # NoKey =>
        /\ status'[y] = "locked"
        /\ NetDiff(bal', y) <= 0
        /\ \A a \in BalanceSheet : snap'[y + 1][a] = bal'[y][a]

\* A close is all or nothing: the step that records it locks the year, leaves
\* no profit untransferred, though the net was read outside the transaction,
\* and carries the balances with the closing journal in them forward.
THEOREM ClosesAreComplete ==
    ASSUME "challan" \notin Writers PROVE Spec => CloseIsComplete
<1> USE ConstantsAssumption
<1>1. Init => NetInv
  BY DEF Init, NetInv, Idle
<1>2. TypeOK /\ NetInv /\ [Next]_vars => [\A y \in Years : Complete(y)]_vars
  <2> SUFFICES ASSUME TypeOK, NetInv, Next, NEW y \in Years, key[y] = NoKey, key'[y] # NoKey
               PROVE  /\ status'[y] = "locked"
                      /\ NetDiff(bal', y) <= 0
                      /\ \A a \in BalanceSheet : snap'[y + 1][a] = bal'[y][a]
    BY DEF Complete
  <2>t. /\ bal \in Balances /\ job \in JobType
        /\ key \in [Years -> NoKey..MaxNo]
        /\ status \in [Years -> {"open", "locked"}]
        /\ snap \in [2..LastYear + 1 -> [BalanceSheet -> Int]]
    BY DEF TypeOK, Balances, JobType
  <2>1. CASE ClosePost
    <3>1. PICK n : key' = [key EXCEPT ![job.year] = n]
      BY <2>1 DEF ClosePost
    <3>2. job.year = y
      BY <2>t, <3>1 DEF JobType
    <3>3. status'[y] = "locked"
      BY <2>1, <2>t, <3>2 DEF ClosePost
    <3>4. NetDiff(bal', y) <= 0
      <4>1. bal' = Post(bal, y, "pl", "capital", job.net) /\ job.net = NetProfit(bal, y)
        BY <2>1, <3>2 DEF ClosePost, NetInv
      <4>2. NetDiff(bal, y) \in Int /\ job.net \in Int
        BY <2>t, NetProfitType DEF JobType
      <4>3. NetDiff(bal', y) = NetDiff(bal, y) - job.net
        BY <2>t, <4>1, <4>2, ClosingNet
      <4> QED
        BY <4>1, <4>2, <4>3 DEF NetProfit, Pos
    <3>5. snap'[y + 1] = [a \in BalanceSheet |-> bal'[y][a]]
      <4>1. y + 1 \in 2..LastYear + 1
        BY DEF Years
      <4> QED
        BY <2>1, <2>t, <3>2, <4>1 DEF ClosePost
    <3> QED
      BY <3>3, <3>4, <3>5
  <2>2. CASE ReopenClear
    <3>1. key'[y] = NoKey
      BY <2>2, <2>t DEF ReopenClear
    <3> QED
      BY <3>1
  <2>3. ClosePost \/ ReopenClear \/ key' = key
    BY DEF Next, SaveJournal, EditJournal, DeleteVoucher, SaveChallan, LockYear, NextYear, CloseRead,
           CloseFail, ReopenUnlock, ReopenReverse, ReopenAbort, Crash
  <2> QED
    BY <2>1, <2>2, <2>3
<1>3. [\A y \in Years : Complete(y)]_vars
        <=> [\A y \in Years : key[y] = NoKey /\ key'[y] # NoKey =>
                /\ status'[y] = "locked"
                /\ NetDiff(bal', y) <= 0
                /\ \A a \in BalanceSheet : snap'[y + 1][a] = bal'[y][a]]_vars
  BY DEF Complete
<1>4. TypeOK /\ NetInv /\ [Next]_vars => NetInv'
  BY NetInvStep
<1> QED
  BY <1>1, <1>2, <1>3, <1>4, TypeCorrect, PTL DEF Spec, CloseIsComplete
-----------------------------------------------------------------------------
(* The pairs under a number *)

\* Numbers are minted twice once an edit has carried a header into another year.  A
\* number has all the same one pair at most of a save, close or reopen, one of an
\* edit and one a reopen mirrored from an edit, as PostAll takes it.
Class(l) == IF l.by \in {"edit", "mirror"} THEN l.by ELSE "saved"
OnePerClass == \A l, m \in legs : l.no = m.no /\ Class(l) = Class(m) => l = m

\* A pair no edit has put there keeps the header it came with, and the number of
\* that header's year.
SavedHeld ==
    \A l \in legs : l.by # "edit" =>
        l.no[1] = l.fy /\ \E v \in vouchers : v.fy = l.fy /\ v.no = l.no

\* The setting never names a reversal.
KeyNotReversal == \A l \in legs : l.by \in {"reversal", "mirror"} => l.no # <<l.fy, key[l.fy]>>

BooksInv == OnePerClass /\ SavedHeld /\ KeyNotReversal

\* The count just claimed is past those of all headers of the year.
LEMMA NextNoPast ==
    ASSUME NEW y, NEW n \in NextNo(y), NEW v \in vouchers, v.fy = y
    PROVE  v.no[2] < n /\ n \in Int
<1> DEFINE used == {0} \cup {w.no[2] : w \in {u \in vouchers : u.fy = y}}
<1>1. v.no[2] \in used
  OBVIOUS
<1>2. n \in 1..MaxNo /\ \A u \in used : u < n
  BY DEF NextNo
<1> HIDE DEF used
<1> QED
  BY <1>1, <1>2, ConstantsAssumption

LEMMA NewNumber ==
    ASSUME SavedHeld, NEW y, NEW n \in NextNo(y), NEW l \in legs, l.by # "edit"
    PROVE  l.no # <<y, n>>
<1> SUFFICES ASSUME l.no = <<y, n>> PROVE FALSE
  OBVIOUS
<1>1. l.no[1] = y /\ l.no[2] = n
  OBVIOUS
<1>2. PICK v \in vouchers : v.fy = y /\ v.no = l.no
  BY <1>1 DEF SavedHeld
<1>3. v.no[2] < n /\ n \in Int
  BY <1>2, NextNoPast
<1> QED
  BY <1>1, <1>2, <1>3

\* A pair and its header under a number just claimed.
LEMMA NewPair ==
    ASSUME OnePerClass, SavedHeld, NEW y, NEW n \in NextNo(y), NEW x, NEW v,
           x.no = <<y, n>>, x.fy = y, x.by \in {"user", "close"},
           v.no = <<y, n>>, v.fy = y,
           vouchers' = vouchers \cup {v}, legs' = legs \cup {x}
    PROVE  OnePerClass' /\ SavedHeld'
<1>1. OnePerClass'
  <2> SUFFICES ASSUME NEW l \in legs', NEW m \in legs', l.no = m.no, Class(l) = Class(m)
               PROVE  l = m
    BY DEF OnePerClass, Class
  <2>1. Class(x) = "saved"
    BY DEF Class
  <2>2. \A k \in legs : k.no = <<y, n>> => Class(k) # "saved"
    BY NewNumber DEF Class
  <2> QED
    BY <2>1, <2>2 DEF OnePerClass
<1>2. SavedHeld'
  <2> SUFFICES ASSUME NEW l \in legs', l.by # "edit"
               PROVE  l.no[1] = l.fy /\ \E u \in vouchers' : u.fy = l.fy /\ u.no = l.no
    BY DEF SavedHeld
  <2>1. CASE l = x
    BY <2>1
  <2>2. CASE l \in legs
    BY <2>2 DEF SavedHeld
  <2> QED
    BY <2>1, <2>2
<1> QED
  BY <1>1, <1>2

LEMMA EditBooks ==
    ASSUME BooksInv, NEW y, NEW target, NEW no, NEW old, NEW p,
           EditFacts(y, target, no, old, p)
    PROVE  BooksInv'
<1> DEFINE x == Leg(no, y, y, p[1], p[2], p[3], "edit")
<1>1. x.no = no /\ x.by = "edit"
  BY DEF Leg
<1>2. legs' = (legs \ (LegsUnder(old) \cup LegsUnder(no))) \cup {x} /\ key' = key
  BY DEF EditFacts
<1> HIDE DEF x
<1>3. \A l \in legs' : l = x \/ (l \in legs /\ l.no # old /\ l.no # no)
  BY <1>2 DEF LegsUnder
<1>4. OnePerClass'
  BY <1>1, <1>3 DEF BooksInv, OnePerClass, Class
<1>5. SavedHeld'
  <2> SUFFICES ASSUME NEW l \in legs', l.by # "edit"
               PROVE  l.no[1] = l.fy /\ \E u \in vouchers' : u.fy = l.fy /\ u.no = l.no
    BY DEF SavedHeld
  <2>1. l \in legs /\ l.no # old
    BY <1>1, <1>3
  <2>2. PICK u \in vouchers : u.fy = l.fy /\ u.no = l.no
    BY <2>1 DEF BooksInv, SavedHeld
  <2>3. u \in vouchers'
    BY <2>1, <2>2 DEF EditFacts
  <2> QED
    BY <2>1, <2>2, <2>3 DEF BooksInv, SavedHeld
<1>6. KeyNotReversal'
  BY <1>1, <1>2, <1>3 DEF BooksInv, KeyNotReversal
<1> QED
  BY <1>4, <1>5, <1>6 DEF BooksInv

LEMMA DeleteBooks ==
    ASSUME BooksInv, NEW v \in vouchers, DeleteVoucher(v)
    PROVE  BooksInv'
<1>1. legs' = legs \ LegsUnder(v.no) /\ vouchers' = vouchers \ {v} /\ key' = key
  BY DEF DeleteVoucher
<1>2. OnePerClass' /\ KeyNotReversal'
  BY <1>1 DEF BooksInv, OnePerClass, KeyNotReversal, Class
<1>3. SavedHeld'
  <2> SUFFICES ASSUME NEW l \in legs', l.by # "edit"
               PROVE  l.no[1] = l.fy /\ \E u \in vouchers' : u.fy = l.fy /\ u.no = l.no
    BY DEF SavedHeld
  <2>1. l \in legs /\ l.no # v.no
    BY <1>1 DEF LegsUnder
  <2>2. PICK u \in vouchers : u.fy = l.fy /\ u.no = l.no
    BY <2>1 DEF BooksInv, SavedHeld
  <2> QED
    BY <1>1, <2>1, <2>2 DEF BooksInv, SavedHeld
<1> QED
  BY <1>2, <1>3 DEF BooksInv

LEMMA ReverseBooks ==
    ASSUME TypeOK, BooksInv, NEW y \in Years, NEW n, NEW mirrored,
           ReversalFacts(y, n, mirrored), key' = key
    PROVE  BooksInv'
<1>1. /\ n \in NextNo(y) /\ legs' = legs \cup mirrored
      /\ vouchers' = vouchers \cup {Journal(<<y, n>>, y, today, "reversal", key[y])}
  BY DEF ReversalFacts
<1>2. ASSUME NEW m \in mirrored
      PROVE  \E l \in legs : /\ l.no = <<y, key[y]>> /\ l.fy = y
                             /\ m = Mirror(l, <<y, n>>, y, today)
                             /\ m.no = <<y, n>> /\ m.fy = y
                             /\ m.by = IF l.by = "edit" THEN "mirror" ELSE "reversal"
  <2>1. PICK l \in ClosingLegs(y) : m = Mirror(l, <<y, n>>, y, today)
    BY DEF ReversalFacts
  <2>2. l \in legs /\ l.no = <<y, key[y]>> /\ l.fy = y
    BY DEF ClosingLegs, ClosingNo
  <2>3. /\ m.no = <<y, n>> /\ m.fy = y
        /\ m.by = IF l.by = "edit" THEN "mirror" ELSE "reversal"
    BY <2>1 DEF Mirror, Leg
  <2> QED
    BY <2>1, <2>2, <2>3
<1>3. \A l \in legs : l.by # "edit" => l.no # <<y, n>>
  BY <1>1, NewNumber DEF BooksInv
<1>4. n # key[y]
  <2>1. PICK v \in vouchers : v.fy = y /\ v.no = <<y, key[y]>>
    BY DEF ReversalFacts, ClosingHeader, ClosingNo
  <2>2. v.no[2] = key[y]
    BY <2>1
  <2>3. v.no[2] < n /\ n \in Int
    BY <1>1, <2>1, NextNoPast
  <2> QED
    BY <2>2, <2>3
<1>5. OnePerClass'
  <2> SUFFICES ASSUME NEW a \in legs', NEW b \in legs', a.no = b.no, Class(a) = Class(b)
               PROVE  a = b
    BY DEF OnePerClass, Class
  <2>1. CASE a \in legs /\ b \in legs
    BY <2>1 DEF BooksInv, OnePerClass
  <2>2. \A m \in mirrored : m.no = <<y, n>> /\ Class(m) # "edit"
    BY <1>2 DEF Class
  <2>3. \A l \in legs : l.no = <<y, n>> => Class(l) = "edit"
    BY <1>3 DEF Class
  <2>4. CASE a \in mirrored /\ b \in mirrored
    <3>1. PICK l \in legs : /\ l.no = <<y, key[y]>> /\ l.fy = y
                            /\ a = Mirror(l, <<y, n>>, y, today)
                            /\ a.by = IF l.by = "edit" THEN "mirror" ELSE "reversal"
      BY <1>2, <2>4
    <3>2. PICK m \in legs : /\ m.no = <<y, key[y]>> /\ m.fy = y
                            /\ b = Mirror(m, <<y, n>>, y, today)
                            /\ b.by = IF m.by = "edit" THEN "mirror" ELSE "reversal"
      BY <1>2, <2>4
    <3>3. l.by \notin {"reversal", "mirror"} /\ m.by \notin {"reversal", "mirror"}
      BY <3>1, <3>2 DEF BooksInv, KeyNotReversal
    <3>4. l.by = "edit" <=> m.by = "edit"
      BY <3>1, <3>2 DEF Class
    <3>5. Class(l) = Class(m)
      BY <3>3, <3>4 DEF Class
    <3>6. l = m
      BY <3>1, <3>2, <3>5 DEF BooksInv, OnePerClass
    <3> QED
      BY <3>1, <3>2, <3>6
  <2> QED
    BY <1>1, <2>1, <2>2, <2>3, <2>4
<1>6. SavedHeld'
  <2> SUFFICES ASSUME NEW l \in legs', l.by # "edit"
               PROVE  l.no[1] = l.fy /\ \E u \in vouchers' : u.fy = l.fy /\ u.no = l.no
    BY DEF SavedHeld
  <2>1. CASE l \in legs
    BY <1>1, <2>1 DEF BooksInv, SavedHeld
  <2>2. CASE l \in mirrored
    <3> DEFINE r == Journal(<<y, n>>, y, today, "reversal", key[y])
    <3>1. r \in vouchers' /\ r.fy = y /\ r.no = <<y, n>>
      BY <1>1 DEF Journal
    <3>2. l.no = <<y, n>> /\ l.fy = y
      BY <1>2, <2>2
    <3> HIDE DEF r
    <3> QED
      BY <3>1, <3>2
  <2> QED
    BY <1>1, <2>1, <2>2
<1>7. KeyNotReversal'
  <2> SUFFICES ASSUME NEW l \in legs', l.by \in {"reversal", "mirror"}
               PROVE  l.no # <<l.fy, key[l.fy]>>
    BY DEF KeyNotReversal
  <2>1. CASE l \in legs
    BY <2>1 DEF BooksInv, KeyNotReversal
  <2>2. CASE l \in mirrored
    BY <1>2, <1>4, <2>2
  <2> QED
    BY <1>1, <2>1, <2>2
<1> QED
  BY <1>5, <1>6, <1>7 DEF BooksInv

LEMMA BooksStep == TypeOK /\ BooksInv /\ [Next]_vars => BooksInv'
<1> SUFFICES ASSUME TypeOK, BooksInv, [Next]_vars PROVE BooksInv'
  OBVIOUS
<1> USE ConstantsAssumption
<1>t. /\ job \in JobType /\ key \in [Years -> NoKey..MaxNo] /\ legs \subseteq LegType
  BY DEF TypeOK, JobType
<1>0. PICK z \in Years : z = job.year
  BY <1>t DEF JobType
<1>1. ASSUME NEW y \in Years, NEW p \in Postings, SaveJournal(y, p) PROVE BooksInv'
  <2>1. PICK n \in NextNo(y) :
             /\ vouchers' = vouchers \cup {Journal(<<y, n>>, y, y, "user", 0)}
             /\ legs' = legs \cup {Leg(<<y, n>>, y, y, p[1], p[2], p[3], "user")}
    BY <1>1 DEF SaveJournal
  <2> DEFINE x == Leg(<<y, n>>, y, y, p[1], p[2], p[3], "user")
             v == Journal(<<y, n>>, y, y, "user", 0)
  <2>2. x.no = <<y, n>> /\ x.fy = y /\ x.by = "user" /\ v.no = <<y, n>> /\ v.fy = y
    BY DEF Leg, Journal
  <2>3. vouchers' = vouchers \cup {v} /\ legs' = legs \cup {x} /\ key' = key
    BY <1>1, <2>1 DEF SaveJournal
  <2> HIDE DEF x, v
  <2>4. OnePerClass' /\ SavedHeld'
    BY <2>2, <2>3, NewPair DEF BooksInv
  <2>5. KeyNotReversal'
    BY <2>2, <2>3 DEF BooksInv, KeyNotReversal
  <2> QED
    BY <2>4, <2>5 DEF BooksInv
<1>2. ASSUME NEW y \in Years, EditJournal(y) PROVE BooksInv'
  BY <1>2, EditIs, EditBooks
<1>3. ASSUME NEW v \in vouchers, DeleteVoucher(v) PROVE BooksInv'
  BY <1>3, DeleteBooks
<1>4. CASE ClosePost
  <2>1. PICK n : CloseFacts(z, n)
    BY <1>0, <1>4, CloseIs
  <2>2. \A y \in Years : key'[y] = IF y = z THEN n ELSE key[y]
    BY <1>t, <2>1 DEF CloseFacts
  <2>3. CASE n = NoVoucher
    <3>1. UNCHANGED <<vouchers, legs>>
      BY <2>1, <2>3 DEF CloseFacts
    <3>2. OnePerClass' /\ SavedHeld'
      BY <3>1 DEF BooksInv, OnePerClass, SavedHeld, Class
    <3>3. KeyNotReversal'
      <4> SUFFICES ASSUME NEW l \in legs, l.by \in {"reversal", "mirror"}
                   PROVE  l.no # <<l.fy, key'[l.fy]>>
        BY <3>1 DEF KeyNotReversal
      <4>1. l.no[2] \in 1..MaxNo /\ l.fy \in Years
        BY <1>t DEF LegType
      <4>2. CASE l.fy = z
        BY <2>2, <2>3, <4>1, <4>2 DEF NoVoucher
      <4>3. CASE l.fy # z
        BY <2>2, <4>1, <4>3 DEF BooksInv, KeyNotReversal
      <4> QED
        BY <4>2, <4>3
    <3> QED
      BY <3>2, <3>3 DEF BooksInv
  <2>4. CASE n # NoVoucher
    <3> DEFINE x == Leg(<<z, n>>, z, z, "pl", "capital", job.net, "close")
               v == Journal(<<z, n>>, z, z, "close", 0)
    <3>1. x.no = <<z, n>> /\ x.fy = z /\ x.by = "close" /\ v.no = <<z, n>> /\ v.fy = z
      BY DEF Leg, Journal
    <3>2. vouchers' = vouchers \cup {v} /\ legs' = legs \cup {x} /\ n \in NextNo(z)
      BY <2>1, <2>4 DEF CloseFacts
    <3> HIDE DEF x, v
    <3>3. OnePerClass' /\ SavedHeld'
      BY <3>1, <3>2, NewPair DEF BooksInv
    <3>4. KeyNotReversal'
      <4> SUFFICES ASSUME NEW l \in legs', l.by \in {"reversal", "mirror"}
                   PROVE  l.no # <<l.fy, key'[l.fy]>>
        BY DEF KeyNotReversal
      <4>1. l \in legs
        BY <3>1, <3>2
      <4>2. l.fy \in Years
        BY <1>t, <4>1 DEF LegType
      <4>3. CASE l.fy = z
        BY <2>2, <3>2, <4>1, <4>3, NewNumber DEF BooksInv
      <4>4. CASE l.fy # z
        BY <2>2, <4>1, <4>2, <4>4 DEF BooksInv, KeyNotReversal
      <4> QED
        BY <4>3, <4>4
    <3> QED
      BY <3>3, <3>4 DEF BooksInv
  <2> QED
    BY <2>3, <2>4
<1>5. CASE ReopenReverse
  <2>1. key' = key
    BY <1>5 DEF ReopenReverse
  <2>2. CASE UNCHANGED books
    BY <2>1, <2>2 DEF books, BooksInv, OnePerClass, SavedHeld, KeyNotReversal, Class
  <2>3. CASE \E n, mirrored : ReversalFacts(z, n, mirrored)
    BY <2>1, <2>3, ReverseBooks
  <2> QED
    BY <1>0, <1>5, <2>2, <2>3, ReverseIs
<1>6. CASE ReopenClear
  <2>1. UNCHANGED <<vouchers, legs>> /\ (key' = [key EXCEPT ![z] = NoKey] \/ key' = key)
    BY <1>0, <1>6 DEF ReopenClear
  <2>2. OnePerClass' /\ SavedHeld'
    BY <2>1 DEF BooksInv, OnePerClass, SavedHeld, Class
  <2>3. KeyNotReversal'
    <3> SUFFICES ASSUME NEW l \in legs, l.by \in {"reversal", "mirror"}
                 PROVE  l.no # <<l.fy, key'[l.fy]>>
      BY <2>1 DEF KeyNotReversal
    <3>1. l.no[2] \in 1..MaxNo /\ l.fy \in Years
      BY <1>t DEF LegType
    <3>2. key'[l.fy] = key[l.fy] \/ key'[l.fy] = NoKey
      BY <1>t, <2>1, <3>1
    <3> QED
      BY <3>1, <3>2 DEF BooksInv, KeyNotReversal, NoKey
  <2> QED
    BY <2>2, <2>3 DEF BooksInv
<1>7. CASE UNCHANGED <<vouchers, legs, key>>
  BY <1>7 DEF BooksInv, OnePerClass, SavedHeld, KeyNotReversal, Class
<1>8. \/ \E y \in Years, p \in Postings : SaveJournal(y, p)
      \/ \E y \in Years : EditJournal(y)
      \/ \E v \in vouchers : DeleteVoucher(v)
      \/ ClosePost
      \/ ReopenReverse
      \/ ReopenClear
      \/ UNCHANGED <<vouchers, legs, key>>
  BY DEF Next, vars, SaveChallan, LockYear, NextYear, CloseRead, CloseFail, ReopenUnlock,
         ReopenAbort, Crash
<1> QED
  BY <1>1, <1>2, <1>3, <1>4, <1>5, <1>6, <1>7, <1>8

LEMMA BooksInvariant == Spec => [](TypeOK /\ BooksInv)
<1>1. Init => BooksInv
  BY DEF Init, BooksInv, OnePerClass, SavedHeld, KeyNotReversal
<1> QED
  BY <1>1, TypeInit, TypeStep, BooksStep, PTL DEF Spec
-----------------------------------------------------------------------------
(* The life cycle of a year *)

\* A reopen has its year unlocked until its last commit.
ReopenUnlocked == job.op \in {"reverse", "clear"} => status[job.year] = "open"

LEMMA ReopenUnlockedStep == TypeOK /\ ReopenUnlocked /\ [Next]_vars => ReopenUnlocked'
<1> SUFFICES ASSUME TypeOK, ReopenUnlocked, [Next]_vars PROVE ReopenUnlocked'
  OBVIOUS
<1>t. /\ job \in JobType /\ status \in [Years -> {"open", "locked"}]
  BY DEF TypeOK, JobType
<1>1. CASE job'.op \in {"idle", "close"}
  BY <1>1 DEF ReopenUnlocked
<1>2. ASSUME NEW y \in Years, ReopenUnlock(y) PROVE ReopenUnlocked'
  <2>1. job'.year = y /\ status'[y] = "open"
    BY <1>t, <1>2 DEF ReopenUnlock, Idle
  <2> QED
    BY <2>1 DEF ReopenUnlocked
<1>3. CASE ReopenReverse
  <2>1. job'.year = job.year /\ status' = status /\ job.op = "reverse"
    BY <1>t, <1>3 DEF ReopenReverse, JobType
  <2> QED
    BY <2>1 DEF ReopenUnlocked
<1>4. CASE job' = job /\ (status' = status \/ job = Idle)
  BY <1>4 DEF ReopenUnlocked, Idle
<1>5. \/ job'.op \in {"idle", "close"}
      \/ \E y \in Years : ReopenUnlock(y)
      \/ ReopenReverse
      \/ job' = job /\ (status' = status \/ job = Idle)
  BY DEF Next, vars, SaveJournal, EditJournal, DeleteVoucher, SaveChallan, LockYear, NextYear,
         CloseRead, CloseFail, ClosePost, ReopenAbort, ReopenClear, Crash, Idle
<1> QED
  BY <1>1, <1>2, <1>3, <1>4, <1>5

LifeInv == TypeOK /\ JobInv /\ KeyInv /\ ReopenUnlocked

LEMMA LifeInvStep == ASSUME Faults = {} PROVE LifeInv /\ [Next]_vars => LifeInv'
  BY TypeStep, JobInvStep, KeyInvStep, ReopenUnlockedStep DEF LifeInv

LEMMA LifeInvInit == Init => LifeInv
<1> SUFFICES ASSUME Init PROVE LifeInv
  OBVIOUS
<1>1. JobInv
  BY IdleJob DEF Init
<1>2. KeyInv
  BY DEF Init, KeyInv
<1>3. ReopenUnlocked
  BY DEF Init, ReopenUnlocked, Idle
<1> QED
  BY <1>1, <1>2, <1>3, TypeInit DEF LifeInv

\* A year whose setting, lock, reopen and closing legs stay.
LEMMA QuietYear ==
    ASSUME TypeOK, NEW y \in Years, key'[y] = key[y],
           status'[y] = status[y] \/ key[y] # NoKey,
           job'.op = "clear" /\ job'.year = y <=> job.op = "clear" /\ job.year = y,
           ClosingLegs(y)' = ClosingLegs(y) \/ key[y] \in {NoKey, NoVoucher}
    PROVE  Life(y)' = Life(y) /\ Carried(y)' = Carried(y)
<1>0. NoKey # NoVoucher
  BY DEF NoKey, NoVoucher
<1>1. CASE key[y] = NoKey
  <2>1. Life(y)' = Life(y)
    BY <1>0, <1>1 DEF Life
  <2>2. Life(y) # "closed"
    <3>1. status[y] \in {"open", "locked"}
      BY DEF TypeOK
    <3> QED
      BY <1>0, <1>1, <3>1 DEF Life
  <2> QED
    BY <2>1, <2>2 DEF Carried
<1>2. CASE key[y] = NoVoucher
  <2>1. Life(y)' = Life(y)
    BY <1>0, <1>2 DEF Life
  <2> QED
    BY <1>2, <2>1 DEF Carried
<1>3. CASE key[y] \notin {NoKey, NoVoucher}
  <2>1. ClosingLegs(y)' = ClosingLegs(y)
    BY <1>3
  <2> HIDE DEF ClosingLegs
  <2>2. Life(y)' = Life(y)
    BY <1>3, <2>1 DEF Life
  <2>3. (CHOOSE v \in ClosingLegs(y)' : TRUE).amt = (CHOOSE v \in ClosingLegs(y) : TRUE).amt
    BY <2>1
  <2> QED
    BY <2>2, <2>3 DEF Carried
<1> QED
  BY <1>1, <1>2, <1>3

\* The balance of the Profit & Loss ledger.
Transferred == bal[LastYear]["pl"]

LEMMA PlType == ASSUME NEW b \in Balances PROVE b[LastYear]["pl"] \in Int
  BY ConstantsAssumption DEF Balances, Ledgers, Nominal

LEMMA TransferredType ==
    /\ TypeOK => Transferred \in Int
    /\ TypeOK' => Transferred' \in Int
  BY PlType DEF TypeOK, Balances, Transferred

LEMMA PlPost ==
    ASSUME NEW b \in Balances, NEW y \in Years, NEW dr, NEW cr, NEW amt \in Int
    PROVE  Post(b, y, dr, cr, amt)[LastYear]["pl"] =
               b[LastYear]["pl"] + (IF dr = "pl" THEN amt ELSE 0) - (IF cr = "pl" THEN amt ELSE 0)
<1>1. LastYear \in 0..LastYear /\ ~ (LastYear < y) /\ "pl" \in Ledgers
  BY ConstantsAssumption DEF Years, Ledgers, Nominal
<1>2. b[LastYear]["pl"] \in Int
  BY PlType
<1> QED
  BY <1>1, <1>2 DEF Post

LEMMA PlPostCredit ==
    ASSUME NEW b \in Balances, NEW y \in Years, NEW cr, cr # "pl", NEW amt \in Int
    PROVE  PostCredit(b, y, cr, amt)[LastYear]["pl"] = b[LastYear]["pl"]
<1>1. LastYear \in 0..LastYear /\ ~ (LastYear < y) /\ "pl" \in Ledgers
  BY ConstantsAssumption DEF Years, Ledgers, Nominal
<1>2. b[LastYear]["pl"] \in Int
  BY PlType
<1> QED
  BY <1>1, <1>2 DEF PostCredit

\* Every year but y stays as it is.
OthersKept(y) == \A z \in Years : z # y => Life(z)' = Life(z) /\ Carried(z)' = Carried(z)
AllKept == \A z \in Years : Life(z)' = Life(z) /\ Carried(z)' = Carried(z)

LEMMA LockMaps ==
    ASSUME NEW y \in Years, OthersKept(y), Life(y) = "open", Life(y)' = "locked",
           Carried(y)' = Carried(y), Transferred' = Transferred
    PROVE  Lifecycle!Lock(y)
  BY DEF OthersKept, Transferred, Lifecycle!Lock

LEMMA CloseMaps ==
    ASSUME NEW y \in Years, OthersKept(y), Life(y) = "open", Life(y)' = "closed",
           Carried(y)' \in Nat, Transferred' = Transferred + Carried(y)'
    PROVE  Lifecycle!Close(y)
  BY DEF OthersKept, Transferred, Lifecycle!Close

LEMMA CloseMixedMaps ==
    ASSUME NEW y \in Years, OthersKept(y), Life(y) = "open", Life(y)' = "mixed",
           Carried(y)' = Carried(y), Transferred' - Transferred \in Nat
    PROVE  Lifecycle!CloseMixed(y)
  BY DEF OthersKept, Transferred, Lifecycle!CloseMixed

LEMMA ReopenMaps ==
    ASSUME NEW y \in Years, OthersKept(y), Life(y) = "closed", Life(y)' = "open",
           Carried(y)' = 0, Transferred' = Transferred - Carried(y)
    PROVE  Lifecycle!Reopen(y)
  BY DEF OthersKept, Transferred, Lifecycle!Reopen

LEMMA ReopenMixedMaps ==
    ASSUME NEW y \in Years, OthersKept(y), Life(y) = "mixed", Life(y)' = "open",
           Carried(y)' = Carried(y), Transferred' \in Int
    PROVE  Lifecycle!ReopenMixed(y)
  BY DEF OthersKept, Transferred, Lifecycle!ReopenMixed

LEMMA RewriteMaps ==
    ASSUME NEW y \in Years, Life(y) = "open", NEW lost,
           \A z \in lost : Life(z) \in {"closed", "mixed"},
           \A z \in Years : Life(z)' = IF z \in lost THEN "gone" ELSE Life(z),
           \A z \in Years : Carried(z)' = IF z \in lost THEN 0 ELSE Carried(z),
           lost \subseteq Years, Transferred' \in Int
    PROVE  Lifecycle!Rewrite(lost)
  BY DEF Transferred, Lifecycle!Rewrite

LEMMA NothingMaps ==
    ASSUME AllKept, Transferred' = Transferred
    PROVE  UNCHANGED Lifecycle!vars
  BY DEF AllKept, Transferred, Lifecycle!vars

\* In an idle program the years that are open have no setting.
LEMMA OpenYear ==
    ASSUME LifeInv, job = Idle, NEW y \in Years, status[y] = "open"
    PROVE  key[y] = NoKey /\ Life(y) = "open"
<1>1. key[y] = NoKey
  BY DEF LifeInv, KeyInv, Idle
<1> QED
  BY <1>1 DEF Life, Idle

\* An edit or a deletion, with a year open to date it in, leaves each closed year
\* its closing legs or takes them all.
LEMMA UserRewrites ==
    ASSUME LifeInv, LifeInv', job = Idle, UNCHANGED <<key, status, job>>,
           NEW y \in Years, status[y] = "open",
           \A z \in Years : key[z] # NoKey => KeptOrLost(z)
    PROVE  \E lost \in SUBSET Years : Lifecycle!Rewrite(lost)
<1> DEFINE lost == {z \in Years : Life(z) \in {"closed", "mixed"} /\ Life(z)' = "gone"}
<1>1. Life(y) = "open"
  BY OpenYear
<1>2. Transferred' \in Int
  BY TransferredType DEF LifeInv
<1>3. ASSUME NEW z \in Years
      PROVE  /\ Life(z)' = IF z \in lost THEN "gone" ELSE Life(z)
             /\ Carried(z)' = IF z \in lost THEN 0 ELSE Carried(z)
  <2>t. TypeOK
    BY DEF LifeInv
  <2>1. CASE key[z] \in {NoKey, NoVoucher}
    <3>1. Life(z)' = Life(z) /\ Carried(z)' = Carried(z)
      BY <2>t, <2>1, QuietYear
    <3> QED
      BY <3>1
  <2>2. CASE key[z] \notin {NoKey, NoVoucher}
    <3>1. KeptOrLost(z) /\ job.op # "clear" /\ job'.op # "clear" /\ key'[z] = key[z]
      BY <2>2 DEF Idle
    <3>2. CASE ClosingLegs(z)' = ClosingLegs(z)
      <4>1. Life(z)' = Life(z) /\ Carried(z)' = Carried(z)
        BY <2>t, <3>2, QuietYear
      <4> QED
        BY <4>1
    <3>3. CASE ClosingLegs(z)' = {}
      <4>1. Life(z)' = "gone"
        BY <2>2, <3>1, <3>3 DEF Life
      <4>2. Carried(z)' = 0
        BY <4>1 DEF Carried
      <4>3. Life(z) \in {"gone", "closed", "mixed"}
        BY <2>2, <3>1 DEF Life
      <4>4. CASE Life(z) = "gone"
        <5>1. Carried(z) = 0
          BY <4>4 DEF Carried
        <5> QED
          BY <4>1, <4>2, <4>4, <5>1
      <4>5. CASE Life(z) # "gone"
        <5>1. z \in lost
          BY <4>1, <4>3, <4>5
        <5> QED
          BY <4>1, <4>2, <5>1
      <4> QED
        BY <4>4, <4>5
    <3> QED
      BY <3>1, <3>2, <3>3 DEF KeptOrLost
  <2> QED
    BY <2>1, <2>2
<1>4. lost \subseteq Years /\ \A z \in lost : Life(z) \in {"closed", "mixed"}
  OBVIOUS
<1> HIDE DEF lost
<1>5. Lifecycle!Rewrite(lost)
  BY <1>1, <1>2, <1>3, <1>4, RewriteMaps
<1> QED
  BY <1>4, <1>5

\* What the user edits, deletes, or posts on Profit & Loss himself.
UserMoves ==
    \/ \E y \in Years : EditJournal(y)
    \/ \E v \in vouchers : DeleteVoucher(v)
    \/ \E y \in Years, p \in Postings : SaveJournal(y, p) /\ "pl" \in {p[1], p[2]}

LEMMA SaveJournalMaps ==
    ASSUME LifeInv, LifeInv', NEW y \in Years, NEW p \in Postings, SaveJournal(y, p)
    PROVE  IF "pl" \in {p[1], p[2]} THEN \E lost \in SUBSET Years : Lifecycle!Rewrite(lost)
                                    ELSE UNCHANGED Lifecycle!vars
<1>1. PICK n \in NextNo(y) :
         /\ vouchers' = vouchers \cup {Journal(<<y, n>>, y, y, "user", 0)}
         /\ legs' = legs \cup {Leg(<<y, n>>, y, y, p[1], p[2], p[3], "user")}
  BY DEF SaveJournal
<1>2. job = Idle /\ UNCHANGED <<key, status, job>> /\ status[y] = "open"
  BY DEF SaveJournal, Writable
<1>3. \A l \in legs' \ legs : l.fy = y
  BY <1>1 DEF Leg
<1>4. key[y] = NoKey
  BY <1>2, OpenYear
<1>5. ASSUME NEW z \in Years, key[z] # NoKey
      PROVE  ClosingLegs(z)' = ClosingLegs(z) /\ KeptOrLost(z)
  <2>1. z # y
    BY <1>4, <1>5
  <2> QED
    BY <1>1, <1>2, <1>3, <2>1, OtherLabel
<1>6. CASE "pl" \in {p[1], p[2]}
  <2>1. \A z \in Years : key[z] # NoKey => KeptOrLost(z)
    BY <1>5
  <2> QED
    BY <1>2, <1>6, <2>1, UserRewrites
<1>7. CASE "pl" \notin {p[1], p[2]}
  <2>1. bal \in Balances /\ p[3] \in Int
    <3>1. p[3] \in Nat \ {0}
      BY ConstantsAssumption
    <3> QED
      BY <3>1 DEF LifeInv, TypeOK, Balances
  <2>2. bal' = Post(bal, y, p[1], p[2], p[3])
    BY DEF SaveJournal
  <2>3. Transferred' = Transferred
    BY <1>7, <2>1, <2>2, PlType, PlPost DEF Transferred
  <2>4. AllKept
    BY <1>2, <1>5, QuietYear DEF AllKept, LifeInv
  <2> QED
    BY <1>7, <2>3, <2>4, NothingMaps
<1> QED
  BY <1>6, <1>7

LEMMA EditJournalMaps ==
    ASSUME LifeInv, LifeInv', NEW y \in Years, EditJournal(y)
    PROVE  \E lost \in SUBSET Years : Lifecycle!Rewrite(lost)
<1>1. PICK target, no, old, p : EditFacts(y, target, no, old, p)
  BY EditIs
<1>2. job = Idle /\ UNCHANGED <<key, status, job>> /\ status[y] = "open"
  BY <1>1 DEF EditFacts, Writable
<1>3. key[y] = NoKey
  BY <1>2, OpenYear
<1>4. \A z \in Years : key[z] # NoKey => KeptOrLost(z)
  BY <1>1, <1>3, EditKeepsOrLoses
<1> QED
  BY <1>2, <1>4, UserRewrites

LEMMA DeleteVoucherMaps ==
    ASSUME LifeInv, LifeInv', NEW v \in vouchers, DeleteVoucher(v)
    PROVE  \E lost \in SUBSET Years : Lifecycle!Rewrite(lost)
<1>1. job = Idle /\ UNCHANGED <<key, status, job>> /\ status[v.yr] = "open"
  BY DEF DeleteVoucher, Writable
<1>2. v.yr \in Years
  BY DEF LifeInv, TypeOK, VoucherType
<1> QED
  BY <1>1, <1>2, DeleteKeepsOrLoses, UserRewrites

LEMMA ChallanMaps ==
    ASSUME LifeInv, NEW y \in Years, NEW i \in {0, 1}, NEW h \in BOOLEAN, SaveChallan(y, 1, i, h)
    PROVE  UNCHANGED Lifecycle!vars
<1>1. bal \in Balances
  BY DEF LifeInv, TypeOK, Balances
<1> DEFINE paid == Post(bal, y, "duties", "cash", 1)
<1>2. paid \in Balances /\ paid[LastYear]["pl"] = bal[LastYear]["pl"]
  BY <1>1, PostType, PlType, PlPost
<1>3. bal' = IF h THEN Post(paid, y, "expense", "cash", i) ELSE PostCredit(paid, y, "cash", i)
  BY DEF SaveChallan
<1> HIDE DEF paid
<1>4. Transferred' = Transferred
  <2>1. CASE h
    <3>1. i \in Int /\ paid[LastYear]["pl"] \in Int
      BY <1>2, PlType
    <3>2. Post(paid, y, "expense", "cash", i)[LastYear]["pl"] =
              paid[LastYear]["pl"] + (IF "expense" = "pl" THEN i ELSE 0) - (IF "cash" = "pl" THEN i ELSE 0)
      BY <1>2, <3>1, PlPost
    <3>3. Post(paid, y, "expense", "cash", i)[LastYear]["pl"] = paid[LastYear]["pl"]
      BY <3>1, <3>2
    <3>4. bal' = Post(paid, y, "expense", "cash", i)
      BY <1>3, <2>1
    <3> QED
      BY <1>2, <3>3, <3>4 DEF Transferred
  <2>2. CASE ~ h
    <3>1. i \in Int /\ "cash" # "pl"
      OBVIOUS
    <3>2. PostCredit(paid, y, "cash", i)[LastYear]["pl"] = paid[LastYear]["pl"]
      BY <1>2, <3>1, PlPostCredit
    <3>3. bal' = PostCredit(paid, y, "cash", i)
      BY <1>3, <2>2
    <3> QED
      BY <1>2, <3>2, <3>3 DEF Transferred
  <2> QED
    BY <2>1, <2>2
<1>5. UNCHANGED <<key, status, job, vouchers, legs>>
  BY DEF SaveChallan
<1>6. AllKept
  BY <1>5, SameBooks, QuietYear DEF AllKept, LifeInv
<1> QED
  BY <1>4, <1>6, NothingMaps

LEMMA LockYearMaps ==
    ASSUME LifeInv, NEW y \in Years, LockYear(y)
    PROVE  Lifecycle!Lock(y)
<1>1. job = Idle /\ status[y] = "open" /\ UNCHANGED <<key, job, bal, vouchers, legs>>
  BY DEF LockYear
<1>2. \A z \in Years : status'[z] = IF z = y THEN "locked" ELSE status[z]
  BY DEF LockYear, LifeInv, TypeOK
<1>3. key[y] = NoKey /\ Life(y) = "open"
  BY <1>1, OpenYear
<1>4. Life(y)' = "locked"
  BY <1>1, <1>2, <1>3 DEF Life, Idle
<1>5. OthersKept(y)
  BY <1>1, <1>2, SameBooks, QuietYear DEF OthersKept, LifeInv
<1>6. Carried(y)' = Carried(y)
  BY <1>3, <1>4 DEF Carried
<1>7. Transferred' = Transferred
  BY <1>1 DEF Transferred
<1> QED
  BY <1>3, <1>4, <1>5, <1>6, <1>7, LockMaps

LEMMA QuietMaps ==
    ASSUME LifeInv,
           NextYear \/ CloseFail \/ (\E y \in Years : CloseRead(y)) \/ UNCHANGED vars
    PROVE  UNCHANGED Lifecycle!vars
<1>1. /\ UNCHANGED <<key, status, bal, vouchers, legs>>
      /\ job' = job \/ (job.op \in {"idle", "close"} /\ job'.op \in {"idle", "close"})
  BY DEF NextYear, CloseFail, CloseRead, vars, Idle
<1>2. AllKept
  BY <1>1, SameBooks, QuietYear DEF AllKept, LifeInv
<1>3. Transferred' = Transferred
  BY <1>1 DEF Transferred
<1> QED
  BY <1>2, <1>3, NothingMaps

LEMMA ClosePostMaps ==
    ASSUME LifeInv, LifeInv', ClosePost
    PROVE  \E y \in Years : Lifecycle!Close(y) \/ Lifecycle!CloseMixed(y)
<1>0. PICK y \in Years : y = job.year
  BY DEF LifeInv, TypeOK
<1>1. PICK n : CloseFacts(y, n)
  BY <1>0, CloseIs
<1>2. /\ job.net \in Nat /\ job.op = "close" /\ job' = Idle
      /\ key[y] = NoKey /\ status[y] = "open"
      /\ key \in [Years -> NoKey..MaxNo] /\ bal \in Balances
      /\ \A z \in Years : status'[z] = IF z = y THEN "locked" ELSE status[z]
  BY <1>0 DEF ClosePost, LifeInv, TypeOK, JobInv, Balances
<1>3. \A z \in Years : key'[z] = IF z = y THEN n ELSE key[z]
  BY <1>1, <1>2 DEF CloseFacts
<1>4. /\ n = NoVoucher => job.net = 0
      /\ n # NoKey
  BY <1>1, NextNoType DEF CloseFacts, NoVoucher, NoKey
<1>5. Life(y) = "open" /\ Carried(y) = 0
  <2>1. Life(y) = "open"
    BY <1>2 DEF Life
  <2> QED
    BY <2>1 DEF Carried
<1>6. OthersKept(y)
  <2> SUFFICES ASSUME NEW z \in Years, z # y PROVE Life(z)' = Life(z) /\ Carried(z)' = Carried(z)
    BY DEF OthersKept
  <2>1. \A l \in legs' \ legs : l.fy = y
    BY <1>1 DEF CloseFacts, Leg
  <2>2. vouchers \subseteq vouchers' /\ legs \subseteq legs'
    BY <1>1 DEF CloseFacts
  <2>3. key'[z] = key[z] /\ status'[z] = status[z] /\ job'.op # "clear" /\ job.op # "clear"
    BY <1>2, <1>3 DEF Idle
  <2>4. ClosingLegs(z)' = ClosingLegs(z)
    BY <2>1, <2>2, <2>3, OtherLabel
  <2> QED
    BY <2>3, <2>4, QuietYear DEF LifeInv
<1>7. Transferred' = Transferred + job.net /\ Transferred \in Int
  <2>1. bal' = Post(bal, y, "pl", "capital", job.net)
    BY <1>0 DEF ClosePost
  <2>2. job.net \in Int /\ "capital" # "pl"
    BY <1>2
  <2>3. /\ bal[LastYear]["pl"] \in Int
        /\ Post(bal, y, "pl", "capital", job.net)[LastYear]["pl"] =
              bal[LastYear]["pl"] + (IF "pl" = "pl" THEN job.net ELSE 0)
                                  - (IF "capital" = "pl" THEN job.net ELSE 0)
    BY <1>2, <2>2, PlType, PlPost
  <2> QED
    BY <2>1, <2>2, <2>3 DEF Transferred
<1>8. CASE n = NoVoucher
  <2>1. Life(y)' = "closed"
    BY <1>2, <1>3, <1>4, <1>8 DEF Life, Idle
  <2>2. Carried(y)' = 0
    BY <1>3, <1>8 DEF Carried
  <2>3. Transferred' = Transferred + Carried(y)'
    BY <1>4, <1>7, <1>8, <2>2
  <2> QED
    BY <1>5, <1>6, <2>1, <2>2, <2>3, CloseMaps
<1>9. CASE n # NoVoucher
  <2> DEFINE x == Leg(<<y, n>>, y, y, "pl", "capital", job.net, "close")
  <2>1. x.fy = y /\ x.no = <<y, n>> /\ x.amt = job.net /\ x \in legs'
    BY <1>1, <1>9 DEF CloseFacts, Leg
  <2> HIDE DEF x
  <2>2. ClosingNo(y)' = <<y, n>>
    BY <1>3 DEF ClosingNo
  <2>3. x \in ClosingLegs(y)'
    BY <2>1, <2>2 DEF ClosingLegs
  <2>4. key'[y] = n /\ job'.op # "clear"
    BY <1>2, <1>3 DEF Idle
  <2> DEFINE c == ClosingLegs(y)
  <2> HIDE DEF c
  <2>5. CASE \A l, m \in ClosingLegs(y)' : l = m
    <3>1. Life(y)' = "closed"
      BY <1>4, <1>9, <2>3, <2>4, <2>5 DEF Life
    <3>2. Carried(y)' = (CHOOSE l \in ClosingLegs(y)' : TRUE).amt
      BY <1>9, <2>4, <3>1 DEF Carried
    <3>3. (CHOOSE l \in ClosingLegs(y)' : TRUE) = x
      BY <2>3, <2>5
    <3>4. Carried(y)' = job.net
      BY <2>1, <3>2, <3>3
    <3> QED
      BY <1>2, <1>5, <1>6, <1>7, <3>1, <3>4, CloseMaps
  <2>6. CASE ~ (\A l, m \in ClosingLegs(y)' : l = m)
    <3>1. Life(y)' = "mixed"
      BY <1>4, <1>9, <2>3, <2>4, <2>6 DEF Life
    <3>2. Carried(y)' = Carried(y)
      BY <1>5, <3>1 DEF Carried
    <3>3. Transferred' - Transferred \in Nat
      BY <1>2, <1>7
    <3> QED
      BY <1>5, <1>6, <3>1, <3>2, <3>3, CloseMixedMaps
  <2> QED
    BY <2>5, <2>6
<1> QED
  BY <1>8, <1>9

LEMMA ReopenUnlockMaps ==
    ASSUME LifeInv, NEW y \in Years, ReopenUnlock(y)
    PROVE  Lifecycle!Reopen(y) \/ UNCHANGED Lifecycle!vars
<1>1. /\ UNCHANGED <<bal, vouchers, legs, key>> /\ job = Idle /\ key[y] # NoKey
      /\ job'.op = IF key[y] = NoVoucher THEN "clear" ELSE "reverse"
      /\ job'.year = y
      /\ \A z \in Years : z # y => status'[z] = status[z]
  BY DEF ReopenUnlock, Idle, LifeInv, TypeOK
<1>2. OthersKept(y)
  BY <1>1, SameBooks, QuietYear DEF OthersKept, LifeInv, Idle
<1>3. Transferred' = Transferred /\ Transferred \in Int
  BY <1>1, TransferredType DEF LifeInv, Transferred
<1>4. CASE key[y] = NoVoucher
  <2>1. Life(y) = "closed" /\ Life(y)' = "open"
    BY <1>1, <1>4 DEF Life, Idle
  <2>2. Carried(y) = 0 /\ Carried(y)' = 0
    BY <1>1, <1>4 DEF Carried
  <2> QED
    BY <1>2, <1>3, <2>1, <2>2, ReopenMaps
<1>5. CASE key[y] # NoVoucher
  <2>1. Life(y)' = Life(y) /\ Carried(y)' = Carried(y)
    BY <1>1, <1>5, SameBooks, QuietYear DEF LifeInv, Idle
  <2> QED
    BY <1>2, <1>3, <2>1, NothingMaps DEF AllKept, OthersKept
<1> QED
  BY <1>4, <1>5

LEMMA ReopenReverseMaps ==
    ASSUME LifeInv, LifeInv', ReopenReverse
    PROVE  \E y \in Years : Lifecycle!Reopen(y) \/ Lifecycle!ReopenMixed(y)
<1>0. PICK y \in Years : y = job.year
  BY DEF LifeInv, TypeOK
<1>1. /\ job.op = "reverse" /\ job'.op = "clear" /\ job'.year = y
      /\ UNCHANGED <<key, status>> /\ today \in Years
      /\ key[y] \in NoKey..MaxNo /\ key[y] \notin {NoKey, NoVoucher}
      /\ bal \in Balances
  BY <1>0 DEF ReopenReverse, LifeInv, TypeOK, JobInv, Balances
<1>2. ~ ReversalExists(y)
  <2>1. \A v \in vouchers : v.no[2] \in 1..MaxNo
    BY DEF LifeInv, TypeOK, VoucherType
  <2>2. key[y] \in Int /\ key[y] > 0
    BY <1>1, ConstantsAssumption DEF NoKey, NoVoucher
  <2>3. RevNo(ClosingNo(y))[2] = - key[y]
    BY DEF RevNo, ClosingNo
  <2> QED
    BY <2>1, <2>2, <2>3 DEF ReversalExists
<1>3. PICK n, mirrored : ReversalFacts(y, n, mirrored)
  BY <1>0, <1>2, ReverseIs
<1>4. OthersKept(y)
  <2> SUFFICES ASSUME NEW z \in Years, z # y PROVE Life(z)' = Life(z) /\ Carried(z)' = Carried(z)
    BY DEF OthersKept
  <2>1. \A l \in mirrored : l.fy = y
    BY <1>3 DEF ReversalFacts, Mirror, Leg
  <2>2. /\ vouchers \subseteq vouchers' /\ legs \subseteq legs'
        /\ \A l \in legs' \ legs : l.fy = y
    BY <1>3, <2>1 DEF ReversalFacts
  <2>3. ClosingLegs(z)' = ClosingLegs(z)
    BY <1>1, <2>2, OtherLabel
  <2> QED
    BY <1>0, <1>1, <2>3, QuietYear DEF LifeInv
<1>5. Life(y)' = "open" /\ Carried(y)' = 0
  <2>1. Life(y)' = "open"
    BY <1>1 DEF Life
  <2> QED
    BY <2>1 DEF Carried
<1>6. ClosingLegs(y) # {}
  BY <1>3 DEF ReversalFacts
<1>7. CASE \A l, m \in ClosingLegs(y) : l = m
  <2>1. Life(y) = "closed"
    BY <1>1, <1>6, <1>7 DEF Life
  <2>2. ClosingStands(y)
    BY <1>1, <1>6 DEF LifeInv, KeyInv, Intact
  <2>3. PICK w \in ClosingLegs(y) : w.dr = "pl" /\ w.cr = "capital" /\ w.by = "close"
    BY <2>2 DEF ClosingStands
  <2>4. ClosingLegs(y) = {w} /\ w.amt \in Nat
    <3>1. ClosingLegs(y) = {w}
      BY <1>7, <2>3
    <3>2. w \in LegType
      BY DEF ClosingLegs, LifeInv, TypeOK
    <3> QED
      BY <3>1, <3>2 DEF LegType
  <2>5. Carried(y) = w.amt
    <3>1. (CHOOSE l \in {w} : TRUE) = w
      OBVIOUS
    <3> QED
      BY <1>1, <2>1, <2>4, <3>1 DEF Carried
  <2> DEFINE x == Mirror(w, <<y, n>>, y, today)
  <2>6. mirrored = {x}
    BY <1>3, <2>4 DEF ReversalFacts
  <2>7. x.yr = today /\ x.dr = "capital" /\ x.cr = "pl" /\ x.amt = w.amt /\ x.by = "reversal"
    BY <2>3 DEF Mirror, Leg
  <2> HIDE DEF x
  <2>8. bal' = Post(bal, today, "capital", "pl", w.amt)
    <3>1. /\ {l \in mirrored : l.by = "edit"} = {}
          /\ {l \in mirrored : l.by = "mirror"} = {}
          /\ {l \in mirrored : l.by \notin {"edit", "mirror"}} = {x}
      BY <2>6, <2>7
    <3>2. PostAll(bal, mirrored) = PostPair(PostPair(PostPair(bal, {}), {}), {x})
      BY <3>1 DEF PostAll
    <3>3. PostPair(bal, {}) = bal
      BY DEF PostPair
    <3>4. PostPair(bal, {x}) = Post(bal, x.yr, x.dr, x.cr, x.amt)
      BY PostPairIs
    <3> QED
      BY <1>3, <2>7, <3>2, <3>3, <3>4 DEF ReversalFacts
  <2>9. Transferred' = Transferred - Carried(y)
    <3>1. w.amt \in Int
      BY <2>4
    <3>2. /\ bal[LastYear]["pl"] \in Int
          /\ Post(bal, today, "capital", "pl", w.amt)[LastYear]["pl"] =
                bal[LastYear]["pl"] + (IF "capital" = "pl" THEN w.amt ELSE 0)
                                    - (IF "pl" = "pl" THEN w.amt ELSE 0)
      BY <1>1, <3>1, PlType, PlPost
    <3> QED
      BY <2>5, <2>8, <3>1, <3>2 DEF Transferred
  <2> QED
    BY <1>4, <1>5, <2>1, <2>9, ReopenMaps
<1>8. CASE ~ (\A l, m \in ClosingLegs(y) : l = m)
  <2>1. Life(y) = "mixed"
    BY <1>1, <1>6, <1>8 DEF Life
  <2>2. Carried(y)' = Carried(y)
    BY <1>5, <2>1 DEF Carried
  <2>3. Transferred' \in Int
    BY TransferredType DEF LifeInv
  <2> QED
    BY <1>4, <1>5, <2>1, <2>2, <2>3, ReopenMixedMaps
<1> QED
  BY <1>7, <1>8

LEMMA ReopenEndMaps ==
    ASSUME Faults = {}, LifeInv, ReopenAbort \/ ReopenClear
    PROVE  UNCHANGED Lifecycle!vars
<1>0. PICK y \in Years : y = job.year
  BY DEF LifeInv, TypeOK
<1>1. /\ job' = Idle /\ UNCHANGED <<bal, vouchers, legs>>
      /\ key \in [Years -> NoKey..MaxNo] /\ status \in [Years -> {"open", "locked"}]
  BY DEF ReopenAbort, ReopenClear, LifeInv, TypeOK
<1>2. Transferred' = Transferred
  BY <1>1 DEF Transferred
<1>3. CASE ReopenAbort
  <2>1. /\ job.op = "reverse" /\ key' = key /\ key[y] # NoKey
        /\ status' = [status EXCEPT ![y] = "locked"]
    BY <1>0, <1>3 DEF ReopenAbort, LifeInv, JobInv
  <2>2. \A z \in Years : status'[z] = IF z = y THEN "locked" ELSE status[z]
    BY <1>1, <2>1
  <2>3. AllKept
    <3> SUFFICES ASSUME NEW z \in Years PROVE Life(z)' = Life(z) /\ Carried(z)' = Carried(z)
      BY DEF AllKept
    <3>1. ClosingLegs(z)' = ClosingLegs(z)
      BY <1>1, <2>1, SameBooks
    <3>2. status'[z] = status[z] \/ key[z] # NoKey
      BY <2>1, <2>2
    <3> QED
      BY <1>1, <2>1, <3>1, <3>2, QuietYear DEF LifeInv, Idle
  <2> QED
    BY <1>2, <2>3, NothingMaps
<1>4. CASE ReopenClear
  <2>1. /\ job.op = "clear" /\ status' = status /\ status[y] = "open"
        /\ key' = [key EXCEPT ![y] = NoKey]
    BY <1>0, <1>4 DEF ReopenClear, LifeInv, ReopenUnlocked
  <2>2. \A z \in Years : key'[z] = IF z = y THEN NoKey ELSE key[z]
    BY <1>1, <2>1
  <2>3. Life(y) = "open" /\ Life(y)' = "open"
    BY <1>0, <1>1, <2>1, <2>2 DEF Life, Idle
  <2>4. Carried(y)' = Carried(y)
    BY <2>3 DEF Carried
  <2>5. ASSUME NEW z \in Years, z # y PROVE Life(z)' = Life(z) /\ Carried(z)' = Carried(z)
    <3>1. key'[z] = key[z]
      BY <2>2, <2>5
    <3>2. ClosingLegs(z)' = ClosingLegs(z)
      BY <1>1, <3>1, SameBooks
    <3> QED
      BY <1>0, <1>1, <2>1, <2>5, <3>1, <3>2, QuietYear DEF LifeInv, Idle
  <2> QED
    BY <1>2, <2>3, <2>4, <2>5, NothingMaps DEF AllKept
<1> QED
  BY <1>3, <1>4

\* Each step is one of the life cycle, or none.
LEMMA LifeStep ==
    ASSUME Faults = {}, LifeInv, [Next]_vars
    PROVE  \/ \E y \in Years : \/ Lifecycle!Lock(y) \/ Lifecycle!Close(y) \/ Lifecycle!CloseMixed(y)
                               \/ Lifecycle!Reopen(y) \/ Lifecycle!ReopenMixed(y)
           \/ UserMoves /\ (\E lost \in SUBSET Years : Lifecycle!Rewrite(lost))
           \/ UNCHANGED Lifecycle!vars
<1>i. LifeInv'
  BY LifeInvStep
<1>1. ASSUME NEW y \in Years, NEW p \in Postings, SaveJournal(y, p)
      PROVE  \/ UserMoves /\ (\E lost \in SUBSET Years : Lifecycle!Rewrite(lost))
             \/ UNCHANGED Lifecycle!vars
  <2>1. IF "pl" \in {p[1], p[2]} THEN \E lost \in SUBSET Years : Lifecycle!Rewrite(lost)
                                 ELSE UNCHANGED Lifecycle!vars
    BY <1>1, <1>i, SaveJournalMaps
  <2>2. "pl" \in {p[1], p[2]} => UserMoves
    BY <1>1 DEF UserMoves
  <2> QED
    BY <2>1, <2>2
<1>2. ASSUME NEW y \in Years, EditJournal(y)
      PROVE  UserMoves /\ (\E lost \in SUBSET Years : Lifecycle!Rewrite(lost))
  <2>1. \E lost \in SUBSET Years : Lifecycle!Rewrite(lost)
    BY <1>2, <1>i, EditJournalMaps
  <2>2. UserMoves
    BY <1>2 DEF UserMoves
  <2> QED
    BY <2>1, <2>2
<1>3. ASSUME NEW v \in vouchers, DeleteVoucher(v)
      PROVE  UserMoves /\ (\E lost \in SUBSET Years : Lifecycle!Rewrite(lost))
  <2>1. \E lost \in SUBSET Years : Lifecycle!Rewrite(lost)
    BY <1>3, <1>i, DeleteVoucherMaps
  <2>2. UserMoves
    BY <1>3 DEF UserMoves
  <2> QED
    BY <2>1, <2>2
<1>4. ASSUME NEW y \in Years, NEW i \in {0, 1}, NEW h \in BOOLEAN, SaveChallan(y, 1, i, h)
      PROVE  UNCHANGED Lifecycle!vars
  BY <1>4, ChallanMaps
<1>5. ASSUME NEW y \in Years, LockYear(y) PROVE Lifecycle!Lock(y)
  BY <1>5, LockYearMaps
<1>6. CASE NextYear \/ CloseFail \/ (\E y \in Years : CloseRead(y)) \/ UNCHANGED vars
  BY <1>6, QuietMaps
<1>7. CASE ClosePost
  BY <1>7, <1>i, ClosePostMaps
<1>8. ASSUME NEW y \in Years, ReopenUnlock(y)
      PROVE  Lifecycle!Reopen(y) \/ UNCHANGED Lifecycle!vars
  BY <1>8, ReopenUnlockMaps
<1>9. CASE ReopenReverse
  BY <1>9, <1>i, ReopenReverseMaps
<1>10. CASE ReopenAbort \/ ReopenClear
  BY <1>10, ReopenEndMaps
<1>11. ~ Crash
  BY DEF Crash
<1> QED
  BY <1>1, <1>2, <1>3, <1>4, <1>5, <1>6, <1>7, <1>8, <1>9, <1>10, <1>11 DEF Next

LEMMA LifeStarts == Init => Lifecycle!Init
<1> SUFFICES ASSUME Init PROVE Lifecycle!Init
  OBVIOUS
<1>1. \A y \in Years : Life(y) = "open" /\ Carried(y) = 0
  BY DEF Init, Life, Carried, Idle
<1>2. bal[LastYear]["pl"] = 0
  <2>1. LastYear \in 0..LastYear /\ "pl" \in Ledgers
    BY ConstantsAssumption DEF Ledgers, Nominal
  <2> QED
    BY <2>1 DEF Init
<1> QED
  BY <1>1, <1>2 DEF Lifecycle!Init

\* Close and reopen implement the life cycle of FyLifecycle, each in several
\* commits and with refusals at every one of them, beside journals, their edits
\* and deletions, locks and challans, as long as no crash or locked database comes
\* between the commits of a reopen: closing a year transfers its profit once,
\* reopening it takes back exactly what was transferred, unless the number held
\* legs of two vouchers, and a closed year whose closing voucher an edit or a
\* deletion has taken stays closed.
THEOREM LifecycleImplemented ==
    ASSUME Faults = {} PROVE Spec => ImplementsLifecycle
<1>1. Init => LifeInv /\ Lifecycle!Init
  BY LifeInvInit, LifeStarts
<1>2. LifeInv /\ [Next]_vars => LifeInv'
  BY LifeInvStep
<1>3. LifeInv /\ [Next]_vars => [Lifecycle!Next]_Lifecycle!vars
  BY LifeStep DEF Lifecycle!Next
<1> QED
  BY <1>1, <1>2, <1>3, PTL DEF Spec, ImplementsLifecycle, Lifecycle!Spec

\* Without edits each number has one pair of legs at most.
NoEdits == \A l \in legs : l.by \notin {"edit", "mirror"}

LEMMA NoEditsStep ==
    ASSUME "edit" \notin Writers PROVE TypeOK /\ NoEdits /\ [Next]_vars => NoEdits'
<1> SUFFICES ASSUME TypeOK, NoEdits, [Next]_vars PROVE NoEdits'
  OBVIOUS
<1>1. ASSUME NEW y \in Years, NEW p \in Postings, SaveJournal(y, p) PROVE NoEdits'
  <2>1. PICK n : legs' = legs \cup {Leg(<<y, n>>, y, y, p[1], p[2], p[3], "user")}
    BY <1>1 DEF SaveJournal
  <2>2. Leg(<<y, n>>, y, y, p[1], p[2], p[3], "user").by = "user"
    BY DEF Leg
  <2> QED
    BY <2>1, <2>2 DEF NoEdits
<1>2. CASE legs' \subseteq legs
  BY <1>2 DEF NoEdits
<1>3. CASE ClosePost
  <2>1. PICK n : CloseFacts(job.year, n)
    BY <1>3, CloseIs
  <2>2. Leg(<<job.year, n>>, job.year, job.year, "pl", "capital", job.net, "close").by = "close"
    BY DEF Leg
  <2>3. \A l \in legs' \ legs : l.by = "close"
    BY <2>1, <2>2 DEF CloseFacts
  <2> QED
    BY <2>3 DEF NoEdits
<1>4. CASE ReopenReverse
  <2>1. CASE ReversalExists(job.year)
    BY <1>4, <2>1 DEF ReopenReverse, books, NoEdits
  <2>2. CASE ~ ReversalExists(job.year)
    <3>1. PICK n, mirrored : ReversalFacts(job.year, n, mirrored)
      BY <1>4, <2>2, ReverseIs
    <3>2. \A m \in mirrored : m.by = "reversal"
      BY <3>1 DEF ReversalFacts, ClosingLegs, Mirror, Leg, NoEdits
    <3> QED
      BY <3>1, <3>2 DEF ReversalFacts, NoEdits
  <2> QED
    BY <2>1, <2>2
<1>5. \/ \E y \in Years, p \in Postings : SaveJournal(y, p)
      \/ legs' \subseteq legs
      \/ ClosePost
      \/ ReopenReverse
  BY DEF Next, vars, EditJournal, DeleteVoucher, SaveChallan, LockYear, NextYear,
         CloseRead, CloseFail, ReopenUnlock, ReopenAbort, ReopenClear, Crash
<1> QED
  BY <1>1, <1>2, <1>3, <1>4, <1>5

LEMMA NeverMixed ==
    ASSUME TypeOK, OnePerClass, NoEdits, NEW y \in Years PROVE Life(y) # "mixed"
<1>1. \A l, m \in ClosingLegs(y) : l = m
  BY DEF ClosingLegs, OnePerClass, NoEdits, Class
<1>2. status[y] \in {"open", "locked"}
  BY DEF TypeOK
<1> QED
  BY <1>1, <1>2 DEF Life

\* Only closes and reopens, each of one closing voucher, and the lock button.
OnlyCloses == \E y \in Years : Lifecycle!Lock(y) \/ Lifecycle!Close(y) \/ Lifecycle!Reopen(y)
NoRewrite == [][OnlyCloses]_(Lifecycle!vars)

\* Where nobody edits or deletes vouchers or posts on Profit & Loss himself, only
\* closes and reopens move that ledger, so that its balance is what the closed
\* years carry: each step adds the profit of the year it closes or takes back that
\* of the year it reopens, and no number holds the legs of two vouchers.
THEOREM OnlyClosesTransfer ==
    ASSUME Faults = {}, "edit" \notin Writers, "delete" \notin Writers,
           \A p \in Postings : p[1] # "pl" /\ p[2] # "pl"
    PROVE  Spec => NoRewrite
<1>1. Init => NoEdits
  BY DEF Init, NoEdits
<1>2. LifeInv /\ NoEdits /\ [Next]_vars => LifeInv' /\ NoEdits'
  BY LifeInvStep, NoEditsStep DEF LifeInv
<1>3. LifeInv /\ BooksInv /\ NoEdits /\ LifeInv' /\ BooksInv' /\ NoEdits' /\ [Next]_vars
          => [OnlyCloses]_(Lifecycle!vars)
  <2> SUFFICES ASSUME LifeInv, BooksInv, NoEdits, LifeInv', BooksInv', NoEdits', [Next]_vars
               PROVE  [OnlyCloses]_(Lifecycle!vars)
    OBVIOUS
  <2>1. ~ UserMoves
    BY DEF UserMoves, EditJournal, DeleteVoucher
  <2>2. ASSUME NEW y \in Years, Lifecycle!CloseMixed(y) PROVE FALSE
    <3>1. Life(y)' = "mixed"
      BY <2>2 DEF Lifecycle!CloseMixed
    <3>2. (TypeOK /\ OnePerClass /\ NoEdits => Life(y) # "mixed")'
      BY NeverMixed, PTL
    <3> QED
      BY <3>1, <3>2 DEF LifeInv, BooksInv
  <2>3. ASSUME NEW y \in Years, Lifecycle!ReopenMixed(y) PROVE FALSE
    BY <2>3, NeverMixed DEF Lifecycle!ReopenMixed, LifeInv, BooksInv
  <2> QED
    BY <2>1, <2>2, <2>3, LifeStep DEF OnlyCloses
<1> QED
  BY <1>1, <1>2, <1>3, LifeInvInit, BooksInvariant, PTL DEF Spec, NoRewrite
=============================================================================
