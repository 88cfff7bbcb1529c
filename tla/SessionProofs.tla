---------------------------- MODULE SessionProofs ----------------------------
(***************************************************************************)
(* Session for any keys, limits, lifetimes and widths: nonces are used     *)
(* once, guesses are limited, a session is of the key in force, and        *)
(* nothing outlives its time, although the clock wraps.                    *)
(***************************************************************************)
EXTENDS Session, ReplayWindow, TLAPS

Window32 == [seen : BOOLEAN, counter : Word, replay : SUBSET (0 .. Window - 1)]
Security ==
    [pending : BOOLEAN, authenticated : BOOLEAN, number : Sessions, key : Keys \cup {NoKey},
     started : Times, tx : Word, rate_time : Times, attempts : 0 .. Limit, rx : Window32]

(* What the variables are that TypeOK leaves out.                          *)
HistoryTypes ==
    /\ guesses \in Nat
    /\ age \in 0 .. ClockModulus
    /\ reused = FALSE

(* A session is numbered by its challenge, and no nonce was used under the *)
(* number of a challenge before it is answered.                            *)
Numbers ==
    /\ s.number <= issued
    /\ \A n \in Sessions, c \in Word : <<n, c>> \in nonces => n <= issued
    /\ s.pending => \A c \in Word : <<s.number, c>> \notin nonces

(* The counters of the client that the session has accepted.               *)
Taking == {c \in Counters : <<s.number, c>> \in nonces}

(* The window w remembers the counters in A.                               *)
Exact(w, A) ==
    /\ w.seen <=> A # {}
    /\ w.seen => /\ w.counter \in A
                 /\ \A a \in A : a <= w.counter
                 /\ \A i \in 0 .. Window - 1 : i \in w.replay <=> w.counter - i \in A

(* Of the counters of the client the window knows which are used; those of *)
(* the device are used up to tx.                                           *)
Nonces ==
    s.authenticated =>
        /\ Exact(s.rx, Taking)
        /\ s.tx >= Half
        /\ \A c \in Word : c >= Half /\ <<s.number, c>> \in nonces => c < s.tx

(* A challenge that is pending may be left over from the window before:    *)
(* it is the one proof that no attempt of this window stands for.          *)
Guesses ==
    /\ guesses + (IF s.pending THEN 1 ELSE 0) <= s.attempts + 1
    /\ guesses <= Limit

(* The clock tells the age of what is pending, and of a session that may   *)
(* expire: the link is closed before the clock comes round.                *)
Ages ==
    /\ s.pending => age <= idle
    /\ s.authenticated /\ Lifetime # 0 => age <= Lifetime + idle
    /\ s.pending \/ (s.authenticated /\ Lifetime # 0) => now = (s.started + age) % ClockModulus

IInv ==
    /\ TypeOK /\ HistoryTypes /\ Numbers /\ Nonces /\ Guesses /\ Ages
    /\ SessionHasCurrentKey

-----------------------------------------------------------------------------
(* The window.                                                             *)

LEMMA Constants ==
    /\ Half \in Nat /\ Half > 0 /\ Window \in Nat /\ Window > 0
    /\ Limit \in Nat /\ Limit > 0 /\ RateWindow \in Nat /\ ChallengeLife \in Nat
    /\ ClockModulus \in Nat /\ ClockModulus > 0
    /\ Lifetime \in Nat /\ IdleLimit \in Nat /\ MaxReplies \in Nat /\ MaxChallenges \in Nat
    /\ ClockModulus > IdleLimit + Lifetime /\ ClockModulus > IdleLimit + ChallengeLife
BY SessionAssumption, WindowAssumption

(* A mask that is shifted still names the same counters, as far as they    *)
(* fit.                                                                    *)
LEMMA ShiftedSound ==
    ASSUME NEW replay \in SUBSET Bits, NEW ahead \in Nat, NEW i \in Bits
    PROVE  /\ Shifted(replay, ahead) \subseteq Bits
           /\ i \in Shifted(replay, ahead) <=> i - ahead \in replay
<1>1. Bits \subseteq Nat
  BY Constants DEF Bits
<1>2. i \in Shifted(replay, ahead) <=> \E j \in replay : i = j + ahead
  BY DEF Shifted, Bits
<1>3. \A j \in replay : i = j + ahead <=> j = i - ahead
  BY <1>1
<1> QED
  BY <1>2, <1>3 DEF Shifted, Bits

(* A counter that is not repeated is new; entered, it leaves the window    *)
(* exact.                                                                  *)
LEMMA AdvancedExact ==
    ASSUME NEW w \in [seen : BOOLEAN, counter : Nat, replay : SUBSET Bits],
           NEW A \in SUBSET Nat, Exact(w, A),
           NEW counter \in Nat, ~Repeated(w, counter)
    PROVE  /\ counter \notin A
           /\ Exact(Advanced(w, counter), A \cup {counter})
           /\ Advanced(w, counter) \in
                  [seen : BOOLEAN, counter : {w.counter, counter}, replay : SUBSET Bits]
<1> DEFINE seen == w.seen
           last == w.counter
           replay == w.replay
           new == Advanced(w, counter)
<1>1. Bits \subseteq Nat /\ 0 \in Bits /\ Bits = 0 .. Window - 1
  BY Constants DEF Bits
<1>2. seen \in BOOLEAN /\ last \in Nat /\ replay \subseteq Bits
  OBVIOUS
<1>3. CASE ~seen
  <2>1. A = {}
    BY <1>2, <1>3 DEF Exact
  <2>2. Advanced(w, counter) = [seen |-> TRUE, counter |-> counter, replay |-> {0}]
    BY <1>2, <1>3 DEF Advanced
  <2>3. \A i \in Bits : i \in {0} <=> counter - i \in {counter}
    BY <1>1
  <2>4. Exact([seen |-> TRUE, counter |-> counter, replay |-> {0}], {counter})
    BY <1>1, <2>3 DEF Exact
  <2> QED
    BY <1>1, <2>1, <2>2, <2>4
<1>4. CASE seen /\ counter > last
  <2> DEFINE ahead == counter - last
             r == {0} \cup Shifted(replay, ahead)
  <2>1. ahead \in Nat /\ ahead > 0
    BY <1>4
  <2>2. Advanced(w, counter) = [seen |-> TRUE, counter |-> counter, replay |-> r]
    BY <1>2, <1>4 DEF Advanced
  <2>3. \A a \in A : a <= last
    BY <1>2, <1>4 DEF Exact
  <2>4. counter \notin A
    BY <1>4, <2>3
  <2>5. \A i \in Bits : i \in r <=> counter - i \in A \cup {counter}
    <3> SUFFICES ASSUME NEW i \in Bits
                 PROVE  i \in r <=> counter - i \in A \cup {counter}
      OBVIOUS
    <3>1. i \in r <=> i = 0 \/ i - ahead \in replay
      BY <2>1, ShiftedSound
    <3>2. CASE i = 0
      BY <3>1, <3>2
    <3>3. CASE i # 0 /\ i < ahead
      <4>1. i - ahead \notin replay
        BY <1>1, <2>1, <3>3
      <4>2. counter - i > last /\ counter - i # counter
        BY <1>1, <3>3
      <4> QED
        BY <1>1, <2>3, <3>1, <3>3, <4>1, <4>2
    <3>4. CASE i >= ahead
      <4>1. /\ i - ahead \in Bits /\ last - (i - ahead) = counter - i
            /\ counter - i # counter /\ i # 0
        BY <1>1, <2>1, <3>4, Constants
      <4>2. i - ahead \in replay <=> counter - i \in A
        BY <1>1, <1>2, <1>4, <4>1 DEF Exact
      <4> QED
        BY <3>1, <4>1, <4>2
    <3> QED
      BY <1>1, <2>1, <3>2, <3>3, <3>4
  <2>6. r \in SUBSET Bits
    BY <1>1, <2>1, ShiftedSound DEF Shifted, Bits
  <2>7. \A a \in A \cup {counter} : a <= counter
    BY <1>4, <2>3
  <2> HIDE DEF r
  <2>8. Exact([seen |-> TRUE, counter |-> counter, replay |-> r], A \cup {counter})
    BY <1>1, <2>5, <2>7 DEF Exact
  <2> QED
    BY <2>2, <2>4, <2>6, <2>8
<1>5. CASE seen /\ counter <= last
  <2> DEFINE behind == last - counter
             r == replay \cup {behind}
  <2>1. behind \in Bits /\ behind \notin replay
    BY <1>1, <1>2, <1>5, Constants DEF Repeated
  <2>2. new.seen /\ new.counter = last /\ new.replay = r /\ new \in [seen : BOOLEAN, counter : {last}, replay : SUBSET Bits]
    BY <1>2, <1>5, <2>1 DEF Advanced
  <2>3. /\ last \in A /\ \A a \in A : a <= last
        /\ \A i \in Bits : i \in replay <=> last - i \in A
    BY <1>1, <1>2, <1>5 DEF Exact
  <2>4. counter \notin A
    BY <2>1, <2>3
  <2>5. \A i \in Bits : i \in r <=> last - i \in A \cup {counter}
    <3> SUFFICES ASSUME NEW i \in Bits
                 PROVE  i \in r <=> last - i \in A \cup {counter}
      OBVIOUS
    <3>1. i = behind <=> last - i = counter
      BY <1>1
    <3> QED
      BY <2>3, <3>1
  <2> HIDE DEF r, new
  <2>6. Exact(new, A \cup {counter})
    BY <1>1, <1>5, <2>2, <2>3, <2>5 DEF Exact
  <2> QED
    BY <2>2, <2>4, <2>6 DEF new
<1> QED
  BY <1>3, <1>4, <1>5

-----------------------------------------------------------------------------
(* The record s, and the clock.                                            *)

LEMMA SecurityType == ASSUME TypeOK PROVE s \in Security /\ ~(s.pending /\ s.authenticated)
BY DEF TypeOK, Security, Window32, Bits

LEMMA ZeroFacts ==
    /\ Zero \in Security
    /\ Zero.pending = FALSE /\ Zero.authenticated = FALSE /\ Zero.number = 0
    /\ Zero.tx = Half /\ Zero.rx = [seen |-> FALSE, counter |-> 0, replay |-> {}]
    /\ Zero.attempts = 0
<1>1. /\ 0 \in Sessions /\ 0 \in Times /\ Half \in Word /\ 0 \in Word /\ 0 \in 0 .. Limit
      /\ NoKey \in Keys \cup {NoKey}
  BY Constants DEF Sessions, Times, Word
<1>2. [seen |-> FALSE, counter |-> 0, replay |-> {}] \in Window32
  BY <1>1 DEF Window32
<1> QED
  BY <1>1, <1>2 DEF Zero, Fresh, Security

(* What survives a reset: the limiter.                                     *)
LEMMA ResetFacts ==
    ASSUME NEW q \in Security
    PROVE  /\ Reset(q) \in Security
           /\ Reset(q).pending = FALSE /\ Reset(q).authenticated = FALSE /\ Reset(q).number = 0
           /\ Reset(q).tx = Half /\ Reset(q).rx = [seen |-> FALSE, counter |-> 0, replay |-> {}]
           /\ Reset(q).attempts = q.attempts
<1>1. q.rate_time \in Times /\ q.attempts \in 0 .. Limit
  BY DEF Security
<1> QED
  BY <1>1, ZeroFacts DEF Reset, Security

(* Nothing is pending or open in q ...                                     *)
Closed(q) == q.pending = FALSE /\ q.authenticated = FALSE /\ q.number <= issued

(* ... or what is, is what was in s.                                       *)
Same(q) ==
    /\ q.pending => s.pending
    /\ q.authenticated = s.authenticated
    /\ q.number = s.number /\ q.key = s.key /\ q.started = s.started
    /\ q.tx = s.tx /\ q.rx = s.rx

(* A command finds the session as it was or, when it has expired, nothing. *)
LEMMA CurrentFacts ==
    ASSUME TypeOK
    PROVE  /\ Current \in Security
           /\ Current.attempts = s.attempts
           /\ \/ Current = s /\ ~Expired(s) /\ Same(Current)
              \/ Closed(Current)
<1>1. Same(s)
  BY DEF Same
<1>2. issued \in Nat
  BY Constants DEF TypeOK
<1>3. CASE Expired(s)
  <2>1. Current = Reset(s)
    BY <1>3 DEF Current
  <2>2. s \in Security
    BY SecurityType
  <2>3. /\ Reset(s) \in Security /\ Reset(s).attempts = s.attempts
        /\ Reset(s).pending = FALSE /\ Reset(s).authenticated = FALSE /\ Reset(s).number = 0
    BY <2>2, ResetFacts
  <2> QED
    BY <1>2, <2>1, <2>3 DEF Closed
<1>4. CASE ~Expired(s)
  BY <1>1, <1>4, SecurityType DEF Current
<1> QED
  BY <1>3, <1>4

LEMMA LimitedFacts ==
    ASSUME TypeOK
    PROVE  /\ Limited \in Security
           /\ Limited.attempts = IF NewWindow THEN 0 ELSE s.attempts
           /\ Same(Limited) \/ Closed(Limited)
<1>1. 0 \in 0 .. Limit /\ now \in Times
  BY Constants DEF TypeOK
<1>2. CASE NewWindow
  <2> DEFINE q == [Current EXCEPT !.attempts = 0, !.rate_time = now]
  <2>1. Limited = q
    BY <1>2 DEF Limited
  <2>2. /\ q \in Security /\ q.attempts = 0
        /\ q.pending = Current.pending /\ q.authenticated = Current.authenticated
        /\ q.number = Current.number /\ q.key = Current.key /\ q.started = Current.started
        /\ q.tx = Current.tx /\ q.rx = Current.rx
    BY <1>1, CurrentFacts DEF Security
  <2> HIDE DEF q
  <2> QED
    BY <1>2, <2>1, <2>2, CurrentFacts DEF Same, Closed
<1>3. CASE ~NewWindow
  BY <1>3, CurrentFacts DEF Limited
<1> QED
  BY <1>2, <1>3

(* The remainder is what is left of a multiple ...                         *)
LEMMA Division ==
    ASSUME NEW m \in Nat \ {0}, NEW y \in Int
    PROVE  /\ y \div m \in Int /\ y % m \in 0 .. m - 1 /\ y = (y \div m) * m + (y % m)
           /\ \A q \in Int, r \in 0 .. m - 1 : y = q * m + r => y % m = r
<1>1. y \div m \in Int /\ y % m \in 0 .. m - 1 /\ y = (y \div m) * m + (y % m)
  OBVIOUS
<1>2. ASSUME NEW q \in Int, NEW r \in 0 .. m - 1, y = q * m + r PROVE y % m = r
  BY <1>2
<1> QED
  BY <1>1, <1>2

(* ... and may be taken before a sum or a difference is, or not.           *)
LEMMA Distance ==
    ASSUME NEW m \in Nat \ {0}, NEW x \in Int, NEW y \in Int
    PROVE  /\ ((y % m) - x) % m = (y - x) % m
           /\ ((y % m) + x) % m = (y + x) % m
<1>1. ASSUME NEW u \in Int, NEW v \in Int, NEW p \in Int, u = v + p * m PROVE u % m = v % m
  <2>1. /\ v \div m \in Int /\ v % m \in 0 .. m - 1 /\ v = (v \div m) * m + (v % m)
    BY Division
  <2>2. u = ((v \div m) + p) * m + (v % m)
    BY <1>1, <2>1
  <2>3. (v \div m) + p \in Int
    BY <2>1
  <2> QED
    BY <2>1, <2>2, <2>3, Division
<1>2. PICK d \in Int, z \in Int : z = y % m /\ z = y + d * m
  <2>1. y \div m \in Int /\ y % m \in Int /\ y = (y \div m) * m + (y % m)
    BY Division
  <2>2. -(y \div m) \in Int /\ y % m = y + (-(y \div m)) * m
    BY <2>1
  <2> QED
    BY <2>1, <2>2
<1>3. (z - x) % m = (y - x) % m
  <2>1. z - x \in Int /\ y - x \in Int /\ z - x = (y - x) + d * m
    BY <1>2
  <2> QED
    BY <1>1, <2>1
<1>4. (z + x) % m = (y + x) % m
  <2>1. z + x \in Int /\ y + x \in Int /\ z + x = (y + x) + d * m
    BY <1>2
  <2> QED
    BY <1>1, <2>1
<1> QED
  BY <1>2, <1>3, <1>4
(* The clock, which wraps, tells the time since another, if that is less   *)
(* than a round.                                                           *)
LEMMA ClockFacts ==
    ASSUME NEW t \in Times, NEW a \in Nat
    PROVE  /\ a < ClockModulus /\ now = (t + a) % ClockModulus => Since(t) = a
           /\ now = (t + a) % ClockModulus =>
                  (now + 1) % ClockModulus = (t + (a + 1)) % ClockModulus
           /\ t = (t + 0) % ClockModulus
<1> DEFINE m == ClockModulus
<1>1. t \in Int /\ t \in 0 .. m - 1 /\ m \in Nat \ {0} /\ t + a \in Int
  BY Constants DEF Times
<1> HIDE DEF m
<1>2. \A k \in 0 .. m - 1 : k % m = k
  <2> SUFFICES ASSUME NEW k \in 0 .. m - 1 PROVE k % m = k
    OBVIOUS
  <2>1. m \in Nat /\ m > 0 /\ k \in Nat /\ k < m
    BY <1>1
  <2> QED
    BY <2>1
<1>3. ASSUME a < m, now = (t + a) % m PROVE Since(t) = a
  <2>1. PICK y \in Int : y = t + a
    BY <1>1
  <2>2. ((y % m) - t) % m = (y - t) % m
    BY <1>1, Distance
  <2>3. y - t = a /\ a \in 0 .. m - 1
    BY <1>1, <1>3, <2>1
  <2> QED
    BY <1>2, <1>3, <2>1, <2>2, <2>3 DEF Since, m
<1>4. ASSUME now = (t + a) % m
      PROVE  (now + 1) % m = (t + (a + 1)) % m
  <2>1. PICK y \in Int : y = t + a
    BY <1>1
  <2>2. \A x \in Int : ((y % m) + x) % m = (y + x) % m
    BY <1>1, Distance
  <2>3. y + 1 = t + (a + 1)
    BY <1>1, <2>1
  <2> QED
    BY <1>4, <2>1, <2>2, <2>3
<1>5. t = (t + 0) % m
  BY <1>1, <1>2
<1> QED
  BY <1>3, <1>4, <1>5 DEF m

-----------------------------------------------------------------------------
(* What a step makes of the invariant.                                     *)

LEMMA InitIInv == Init => IInv
<1> SUFFICES ASSUME Init PROVE IInv
  OBVIOUS
<1>1. TypeOK
  BY Constants, ZeroFacts DEF Init, TypeOK, Security, Window32, Times
<1>2. s.pending = FALSE /\ s.authenticated = FALSE /\ s.number = 0 /\ s.attempts = 0
  BY ZeroFacts DEF Init
<1>3. Numbers /\ Nonces /\ Ages /\ SessionHasCurrentKey
  BY <1>2 DEF Init, Numbers, Nonces, Ages, SessionHasCurrentKey
<1>4. HistoryTypes /\ Guesses
  BY <1>2, Constants DEF Init, HistoryTypes, Guesses
<1> QED
  BY <1>1, <1>3, <1>4 DEF IInv

(* Nothing is pending or open afterwards.                                  *)
LEMMA ClosedStep ==
    ASSUME IInv,
           s' \in Security, s'.pending = FALSE, s'.authenticated = FALSE, s'.number <= issued',
           config' \in Keys \cup {NoKey}, now' \in Times, idle' \in 0 .. IdleLimit,
           issued' \in issued .. MaxChallenges,
           nonces' \subseteq Sessions \X Word,
           \A n \in Sessions, c \in Word : <<n, c>> \in nonces' => n <= issued,
           HistoryTypes', guesses' <= s'.attempts + 1, guesses' <= Limit
    PROVE  IInv'
<1>1. issued \in Nat /\ issued' \in 0 .. MaxChallenges /\ issued <= issued'
  BY Constants DEF IInv, TypeOK
<1>2. TypeOK'
  BY <1>1 DEF TypeOK, Security, Window32, Bits
<1>3. Numbers'
  <2>1. \A n \in Sessions : n \in Int
    BY Constants DEF Sessions
  <2> QED
    BY <1>1, <2>1 DEF Numbers
<1>4. Nonces' /\ Ages' /\ SessionHasCurrentKey' /\ Guesses'
  BY DEF Nonces, Ages, SessionHasCurrentKey, Guesses, HistoryTypes
<1> QED
  BY <1>2, <1>3, <1>4 DEF IInv

(* What is pending or open afterwards was so before, and is no other.      *)
LEMMA SameStep ==
    ASSUME IInv, s' \in Security, Same(s'),
           UNCHANGED <<config, now, idle, issued, age, nonces, reused>>,
           guesses' \in Nat, Guesses'
    PROVE  IInv'
<1>1. /\ s'.pending \in BOOLEAN /\ s.pending \in BOOLEAN
      /\ s'.authenticated \in BOOLEAN /\ s'.authenticated = s.authenticated
      /\ s'.pending => s.pending
      /\ s'.number = s.number /\ s'.key = s.key /\ s'.started = s.started
      /\ s'.tx = s.tx /\ s'.rx = s.rx
  BY SecurityType DEF IInv, Same, Security
<1>2. TypeOK'
  BY <1>1 DEF IInv, TypeOK, Security, Window32
<1>3. HistoryTypes' /\ Numbers'
  BY <1>1 DEF IInv, HistoryTypes, Numbers
<1>4. Nonces'
  <2>1. Taking' = Taking
    BY <1>1 DEF Taking
  <2>2. s.authenticated => Exact(s'.rx, Taking')
    BY <1>1, <2>1 DEF IInv, Nonces
  <2> QED
    BY <1>1, <2>2 DEF IInv, Nonces
<1>5. Ages' /\ SessionHasCurrentKey'
  BY <1>1 DEF IInv, Ages, SessionHasCurrentKey
<1> QED
  BY <1>2, <1>3, <1>4, <1>5 DEF IInv

(* A command that touches no more than the limiter.                        *)
LEMMA QuietStep ==
    ASSUME IInv, s' \in Security,
           Same(s') \/ Closed(s'), config' = config \/ Closed(s'),
           config' \in Keys \cup {NoKey},
           UNCHANGED <<now, idle, issued, age, nonces, reused>>,
           \/ guesses' = 0
           \/ guesses' = guesses /\ s'.attempts = s.attempts
    PROVE  IInv'
<1>1. /\ s'.attempts \in 0 .. Limit /\ s.attempts \in 0 .. Limit /\ Limit \in Nat
      /\ issued \in 0 .. MaxChallenges /\ MaxChallenges \in Nat
      /\ s.pending \in BOOLEAN /\ s'.pending \in BOOLEAN
  BY SecurityType, Constants DEF IInv, TypeOK, Security
<1>2. guesses \in Nat /\ guesses' \in Nat /\ guesses' <= s'.attempts + 1 /\ guesses' <= Limit
  BY <1>1 DEF IInv, HistoryTypes, Guesses
<1>3. CASE Closed(s')
  <2>1. /\ s'.pending = FALSE /\ s'.authenticated = FALSE /\ s'.number <= issued'
        /\ now' \in Times /\ idle' \in 0 .. IdleLimit
        /\ issued' \in issued .. MaxChallenges
        /\ nonces' \subseteq Sessions \X Word
        /\ \A n \in Sessions, c \in Word : <<n, c>> \in nonces' => n <= issued
    BY <1>1, <1>3 DEF Closed, IInv, TypeOK, Numbers
  <2>2. HistoryTypes'
    BY <1>2 DEF IInv, HistoryTypes
  <2> QED
    BY <1>2, <2>1, <2>2, ClosedStep
<1>4. CASE Same(s') /\ config' = config
  <2>1. s'.pending => s.pending
    BY <1>4 DEF Same
  <2>2. Guesses'
    BY <1>1, <1>2, <2>1 DEF IInv, Guesses
  <2> QED
    BY <1>2, <1>4, <2>2, SameStep
<1> QED
  BY <1>3, <1>4

-----------------------------------------------------------------------------
(* The steps.                                                              *)

LEMMA QuietCommands ==
    ASSUME IInv,
           \/ NoProof \/ AuthRefused \/ FrameRefused
           \/ \E commit \in BOOLEAN, key \in Keys \cup {NoKey} : Plain(commit, key)
    PROVE  IInv'
<1>1. TypeOK /\ config \in Keys \cup {NoKey}
  BY DEF IInv, TypeOK
<1>2. CASE NoProof
  <2> DEFINE q == [Limited EXCEPT !.pending = FALSE]
  <2>1. s' = q
    BY <1>2 DEF NoProof
  <2>2. /\ q \in Security /\ q.attempts = Limited.attempts /\ q.pending = FALSE
        /\ q.authenticated = Limited.authenticated
        /\ q.number = Limited.number /\ q.key = Limited.key /\ q.started = Limited.started
        /\ q.tx = Limited.tx /\ q.rx = Limited.rx
    BY <1>1, LimitedFacts DEF Security
  <2> HIDE DEF q
  <2>3. Same(q) \/ Closed(q)
    BY <1>1, <2>2, LimitedFacts DEF Same, Closed
  <2>4. UNCHANGED <<config, now, idle, issued, age, nonces, reused>>
    BY <1>2 DEF NoProof, Dispatch
  <2>5. guesses' = IF NewWindow THEN 0 ELSE guesses
    BY <1>2 DEF NoProof
  <2>6. q.attempts = IF NewWindow THEN 0 ELSE s.attempts
    BY <1>1, <2>2, LimitedFacts
  <2> QED
    BY <1>1, <2>1, <2>2, <2>3, <2>4, <2>5, <2>6, QuietStep
<1>3. CASE AuthRefused
  <2>1. \/ s' = Current /\ guesses' = guesses
        \/ s' = Limited /\ guesses' = IF NewWindow THEN 0 ELSE guesses
    BY <1>3 DEF AuthRefused
  <2>2. UNCHANGED <<config, now, idle, issued, age, nonces, reused>>
    BY <1>3 DEF AuthRefused, Dispatch
  <2>3. s' \in Security /\ (Same(s') \/ Closed(s'))
    BY <1>1, <2>1, CurrentFacts, LimitedFacts
  <2>4. guesses' = 0 \/ (guesses' = guesses /\ s'.attempts = s.attempts)
    BY <1>1, <2>1, CurrentFacts, LimitedFacts
  <2> QED
    BY <1>1, <2>2, <2>3, <2>4, QuietStep
<1>4. CASE FrameRefused
  <2>1. s' = Current /\ UNCHANGED <<config, now, idle, issued, guesses, age, nonces, reused>>
    BY <1>4 DEF FrameRefused, Dispatch, history
  <2> QED
    BY <1>1, <2>1, CurrentFacts, QuietStep
<1>5. ASSUME NEW commit \in BOOLEAN, NEW key \in Keys \cup {NoKey}, Plain(commit, key)
      PROVE  IInv'
  <2>1. /\ s' = IF commit THEN Reset(Current) ELSE Current
        /\ config' = IF commit THEN key ELSE config
        /\ UNCHANGED <<now, idle, issued, guesses, age, nonces, reused>>
    BY <1>5 DEF Plain, After, Dispatch, history
  <2>2. /\ Current \in Security /\ Current.attempts = s.attempts
        /\ Same(Current) \/ Closed(Current)
    BY <1>1, CurrentFacts
  <2>3. /\ Reset(Current) \in Security /\ Reset(Current).attempts = s.attempts
        /\ Closed(Reset(Current))
    <3>1. issued \in Nat
      BY <1>1, Constants DEF TypeOK
    <3>2. /\ Reset(Current) \in Security /\ Reset(Current).attempts = s.attempts
          /\ Reset(Current).pending = FALSE /\ Reset(Current).authenticated = FALSE
          /\ Reset(Current).number = 0
      BY <2>2, ResetFacts
    <3> QED
      BY <3>1, <3>2 DEF Closed
  <2> QED
    BY <1>1, <2>1, <2>2, <2>3, QuietStep
<1> QED
  BY <1>2, <1>3, <1>4, <1>5

(* The link or the power goes.                                             *)
LEMMA EndStep == ASSUME IInv, Disconnect \/ Reboot PROVE IInv'
<1>1. /\ issued \in 0 .. MaxChallenges /\ MaxChallenges \in Nat /\ 0 \in Times /\ 0 \in 0 .. IdleLimit
      /\ now \in Times /\ config \in Keys \cup {NoKey} /\ nonces \subseteq Sessions \X Word
      /\ \A n \in Sessions, c \in Word : <<n, c>> \in nonces => n <= issued
      /\ s \in Security
  BY SecurityType, Constants DEF IInv, TypeOK, Numbers, Times
<1>2. /\ s' \in Security /\ s'.pending = FALSE /\ s'.authenticated = FALSE /\ s'.number = 0
      /\ now' \in Times /\ idle' = 0
      /\ UNCHANGED <<config, issued, age, nonces, reused>>
  BY <1>1, ResetFacts, ZeroFacts DEF Disconnect, Reboot, history
<1>3. /\ guesses' = 0 \/ (guesses' = guesses /\ s'.attempts = s.attempts)
      /\ s'.attempts \in 0 .. Limit /\ s.attempts \in 0 .. Limit
      /\ guesses \in Nat /\ Limit \in Nat
  BY <1>1, <1>2, ResetFacts, Constants DEF Disconnect, Reboot, history, IInv, HistoryTypes, Security
<1>4. guesses' \in Nat /\ guesses' <= s'.attempts + 1 /\ guesses' <= Limit
  BY <1>3 DEF IInv, Guesses
<1>5. HistoryTypes'
  BY <1>2, <1>4 DEF IInv, HistoryTypes
<1>6. /\ s'.number <= issued' /\ issued' \in issued .. MaxChallenges
      /\ idle' \in 0 .. IdleLimit /\ config' \in Keys \cup {NoKey}
      /\ nonces' \subseteq Sessions \X Word
      /\ \A n \in Sessions, c \in Word : <<n, c>> \in nonces' => n <= issued
  BY <1>1, <1>2
<1> QED
  BY <1>2, <1>4, <1>5, <1>6, ClosedStep

(* Time passes.                                                            *)
LEMMA TickStep == ASSUME IInv, Tick PROVE IInv'
<1>1. /\ s' = s /\ UNCHANGED <<config, issued, guesses, nonces, reused>>
      /\ now' = (now + 1) % ClockModulus
      /\ idle' = IF Open THEN idle + 1 ELSE 0
      /\ age' = IF Open /\ age < ClockModulus THEN age + 1 ELSE age
      /\ Open => idle < IdleLimit
  BY DEF Tick
<1>2. /\ s.started \in Times /\ s.pending \in BOOLEAN /\ s.authenticated \in BOOLEAN
      /\ idle \in 0 .. IdleLimit /\ age \in 0 .. ClockModulus /\ now \in Times
  BY SecurityType DEF IInv, TypeOK, HistoryTypes, Security
<1>3. TypeOK'
  <2>1. (now + 1) % ClockModulus \in Times
    BY <1>2, Constants DEF Times
  <2>2. idle' \in 0 .. IdleLimit
    BY <1>1, <1>2, Constants
  <2> QED
    BY <1>1, <2>1, <2>2 DEF IInv, TypeOK
<1>4. HistoryTypes'
  BY <1>1, <1>2, Constants DEF IInv, HistoryTypes
<1>5. Numbers' /\ Guesses' /\ SessionHasCurrentKey'
  BY <1>1 DEF IInv, Numbers, Guesses, SessionHasCurrentKey
<1>6. Nonces'
  <2>1. Taking' = Taking
    BY <1>1 DEF Taking
  <2> QED
    BY <1>1, <2>1 DEF IInv, Nonces, Exact
<1>7. Ages'
  <2>1. now = (s.started + age) % ClockModulus => now' = (s.started + (age + 1)) % ClockModulus
    <3>1. age \in Nat
      BY <1>2, Constants
    <3> QED
      BY <1>1, <1>2, <3>1, ClockFacts
  <2>2. CASE s.pending
    <3>1. age <= idle /\ now = (s.started + age) % ClockModulus /\ s.authenticated = FALSE
      BY <1>2, <2>2 DEF IInv, Ages, TypeOK
    <3>2. age' = age + 1 /\ idle' = idle + 1
      BY <1>1, <1>2, <2>2, <3>1, Constants DEF Open
    <3> QED
      BY <1>1, <1>2, <2>1, <3>1, <3>2 DEF Ages
  <2>3. CASE s.authenticated /\ Lifetime # 0
    <3>1. age <= Lifetime + idle /\ now = (s.started + age) % ClockModulus /\ s.pending = FALSE
      BY <1>2, <2>3 DEF IInv, Ages, TypeOK
    <3>2. age' = age + 1 /\ idle' = idle + 1
      BY <1>1, <1>2, <2>3, <3>1, Constants DEF Open
    <3>3. age' <= Lifetime + idle'
      BY <1>2, <3>1, <3>2, Constants
    <3> QED
      BY <1>1, <2>1, <3>1, <3>2, <3>3 DEF Ages
  <2> QED
    BY <1>1, <2>2, <2>3 DEF Ages
<1> QED
  BY <1>3, <1>4, <1>5, <1>6, <1>7 DEF IInv

(* A handshake begins: the challenge is new, and counts as an attempt.     *)
LEMMA ChallengeStep == ASSUME IInv, NEW random \in BOOLEAN, Challenge(random) PROVE IInv'
<1> DEFINE old == Reset(Limited)
           q == [old EXCEPT !.attempts = @ + 1]
           p == [q EXCEPT !.pending = TRUE, !.number = issued + 1, !.started = now]
<1>1. /\ Limited.attempts < Limit /\ issued < MaxChallenges
      /\ s' = IF random THEN p ELSE q
      /\ issued' = issued + 1 /\ age' = 0
      /\ guesses' = IF NewWindow THEN 0 ELSE guesses
      /\ UNCHANGED <<config, now, idle, nonces, reused>>
  BY DEF Challenge, Allowed, Dispatch
<1>2. /\ issued \in 0 .. MaxChallenges /\ MaxChallenges \in Nat /\ Limit \in Nat
      /\ now \in Times /\ idle \in 0 .. IdleLimit /\ config \in Keys \cup {NoKey}
      /\ nonces \subseteq Sessions \X Word
      /\ \A n \in Sessions, c \in Word : <<n, c>> \in nonces => n <= issued
      /\ guesses \in Nat /\ reused = FALSE /\ guesses <= Limit
  BY Constants DEF IInv, TypeOK, Numbers, HistoryTypes, Guesses
<1>3. /\ Limited \in Security
      /\ Limited.attempts = IF NewWindow THEN 0 ELSE s.attempts
      /\ s.attempts \in 0 .. Limit /\ Limited.attempts \in 0 .. Limit
      /\ s.pending \in BOOLEAN
  BY LimitedFacts, SecurityType DEF IInv, Security
<1>4. /\ old \in Security /\ old.attempts = Limited.attempts
      /\ old.pending = FALSE /\ old.authenticated = FALSE /\ old.number = 0
  BY <1>3, ResetFacts
<1> HIDE DEF old
<1>5. Limited.attempts + 1 \in 0 .. Limit
  BY <1>1, <1>2, <1>3
<1>6. /\ q \in Security /\ q.attempts = Limited.attempts + 1
      /\ q.pending = FALSE /\ q.authenticated = FALSE /\ q.number = 0
  BY <1>4, <1>5 DEF Security
<1> HIDE DEF q
<1>7. issued + 1 \in Sessions /\ issued' \in 0 .. MaxChallenges /\ issued' \in issued .. MaxChallenges
  BY <1>1, <1>2 DEF Sessions
<1>8. guesses' \in Nat /\ guesses' <= Limited.attempts + 1 /\ guesses' <= Limit
  BY <1>1, <1>2, <1>3 DEF IInv, Guesses
<1>9. HistoryTypes'
  BY <1>1, <1>2, <1>8, Constants DEF HistoryTypes
<1>10. CASE ~random
  <2>1. /\ s' \in Security /\ s'.pending = FALSE /\ s'.authenticated = FALSE
        /\ s'.number = 0 /\ s'.attempts = Limited.attempts + 1
    BY <1>1, <1>6, <1>10
  <2>2. s'.number <= issued' /\ guesses' <= s'.attempts + 1
    BY <1>2, <1>3, <1>7, <1>8, <2>1
  <2> QED
    BY <1>1, <1>2, <1>7, <1>8, <1>9, <2>1, <2>2, ClosedStep
<1>11. CASE random
  <2>1. /\ p \in Security /\ p.pending = TRUE /\ p.authenticated = FALSE
        /\ p.number = issued + 1 /\ p.started = now /\ p.attempts = Limited.attempts + 1
    BY <1>2, <1>6, <1>7 DEF Security
  <2> HIDE DEF p
  <2>2. s' = p
    BY <1>1, <1>11
  <2>3. TypeOK'
    BY <1>1, <1>2, <1>7, <2>1, <2>2 DEF TypeOK, Security, Window32, Bits
  <2>4. Numbers'
    <3>1. \A n \in Sessions : n \in Int
      BY Constants DEF Sessions
    <3> QED
      BY <1>1, <1>2, <1>7, <2>1, <2>2, <3>1 DEF Numbers
  <2>5. Guesses'
    BY <1>3, <1>8, <2>1, <2>2 DEF Guesses
  <2>6. Ages'
    <3>1. now = (now + 0) % ClockModulus
      BY <1>2, ClockFacts
    <3> QED
      BY <1>1, <1>2, <2>1, <2>2, <3>1 DEF Ages
  <2>7. Nonces' /\ SessionHasCurrentKey'
    BY <2>1, <2>2 DEF Nonces, SessionHasCurrentKey
  <2> QED
    BY <1>9, <2>3, <2>4, <2>5, <2>6, <2>7 DEF IInv
<1> QED
  BY <1>10, <1>11

(* A proof is examined: the session it opens has a number under which no   *)
(* nonce was used.                                                         *)
LEMMA ProofStep ==
    ASSUME IInv, NEW number, NEW key \in Keys, NEW works \in BOOLEAN, Proof(number, key, works)
    PROVE  IInv'
<1> DEFINE old == Reset(Limited)
           p == [old EXCEPT !.authenticated = TRUE, !.number = number, !.key = key, !.started = now]
<1>1. /\ Limited.attempts < Limit /\ Limited.pending
      /\ \/ s' = p /\ age' = 0 /\ number = Limited.number /\ key = config
         \/ s' = old /\ age' = age
      /\ guesses' = 1 + IF NewWindow THEN 0 ELSE guesses
      /\ UNCHANGED <<config, now, idle, issued, nonces, reused>>
  BY DEF Proof, Allowed, Answerable, Dispatch
<1>2. /\ issued \in 0 .. MaxChallenges /\ MaxChallenges \in Nat /\ Limit \in Nat
      /\ now \in Times /\ idle \in 0 .. IdleLimit /\ config \in Keys \cup {NoKey}
      /\ nonces \subseteq Sessions \X Word
      /\ \A n \in Sessions, c \in Word : <<n, c>> \in nonces => n <= issued
      /\ guesses \in Nat /\ reused = FALSE /\ age \in 0 .. ClockModulus
  BY Constants DEF IInv, TypeOK, Numbers, HistoryTypes
<1>3. /\ Limited \in Security
      /\ Limited.attempts = IF NewWindow THEN 0 ELSE s.attempts
      /\ s.attempts \in 0 .. Limit /\ Limited.attempts \in 0 .. Limit
      /\ s.pending = TRUE /\ Limited.number = s.number
  BY <1>1, LimitedFacts, SecurityType DEF IInv, Security, Same, Closed
<1>4. /\ old \in Security /\ old.attempts = Limited.attempts
      /\ old.pending = FALSE /\ old.authenticated = FALSE /\ old.number = 0
      /\ old.tx = Half /\ old.rx = [seen |-> FALSE, counter |-> 0, replay |-> {}]
  BY <1>3, ResetFacts
<1> HIDE DEF old
<1>5. guesses' \in Nat /\ guesses' <= Limited.attempts + 1 /\ guesses' <= Limit
  BY <1>1, <1>2, <1>3 DEF IInv, Guesses
<1>6. HistoryTypes'
  BY <1>1, <1>2, <1>5, Constants DEF HistoryTypes
<1>7. CASE s' = old
  <2>1. /\ s' \in Security /\ s'.pending = FALSE /\ s'.authenticated = FALSE
        /\ s'.number <= issued' /\ guesses' <= s'.attempts + 1
        /\ issued' \in issued .. MaxChallenges
    BY <1>1, <1>2, <1>4, <1>5, <1>7
  <2> QED
    BY <1>1, <1>2, <1>5, <1>6, <2>1, ClosedStep
<1>8. CASE s' = p /\ age' = 0 /\ number = Limited.number /\ key = config
  <2>1. s.number \in Sessions /\ s.number <= issued /\ \A c \in Word : <<s.number, c>> \notin nonces
    BY <1>3, SecurityType DEF IInv, Security, Numbers
  <2>2. /\ p \in Security /\ p.pending = FALSE /\ p.authenticated = TRUE
        /\ p.number = s.number /\ p.started = now /\ p.attempts = Limited.attempts
        /\ p.key = config /\ p.tx = Half
        /\ p.rx = [seen |-> FALSE, counter |-> 0, replay |-> {}]
    BY <1>2, <1>3, <1>4, <1>8, <2>1 DEF Security
  <2> HIDE DEF p
  <2>3. TypeOK'
    BY <1>1, <1>2, <1>8, <2>2 DEF TypeOK, Security, Window32, Bits
  <2>4. Numbers'
    BY <1>1, <1>2, <1>8, <2>1, <2>2 DEF Numbers
  <2>5. Nonces'
    <3>1. Taking' = {}
      BY <1>1, <1>8, <2>1, <2>2, Constants DEF Taking, Counters, Word
    <3>2. Exact(p.rx, {})
      BY <2>2 DEF Exact
    <3> QED
      BY <1>1, <1>8, <2>1, <2>2, <3>1, <3>2, Constants DEF Nonces
  <2>6. Guesses'
    BY <1>5, <1>8, <2>2 DEF Guesses
  <2>7. Ages'
    <3>1. now = (now + 0) % ClockModulus
      BY <1>2, ClockFacts
    <3> QED
      BY <1>1, <1>2, <1>8, <2>2, <3>1, Constants DEF Ages
  <2>8. SessionHasCurrentKey'
    BY <1>1, <1>8, <2>2 DEF SessionHasCurrentKey
  <2> QED
    BY <1>6, <2>3, <2>4, <2>5, <2>6, <2>7, <2>8 DEF IInv
<1> QED
  BY <1>1, <1>7, <1>8

(* The device stops before its counters come round.                        *)
LEMMA SendFacts ==
    ASSUME NEW tx \in Word, NEW replies \in 0 .. MaxReplies
    PROVE  /\ Sendable(tx, replies) \in Nat
           /\ (tx + Sendable(tx, replies)) % (2 * Half) = tx + Sendable(tx, replies)
           /\ tx + Sendable(tx, replies) \in Word
           /\ \A i \in 0 .. Sendable(tx, replies) - 1 :
                  (tx + i) % (2 * Half) = tx + i /\ tx + i \in Word
<1> DEFINE m == 2 * Half
           count == Sendable(tx, replies)
<1>1. m \in Nat \ {0} /\ tx \in 0 .. m - 1 /\ replies \in Nat /\ Word = 0 .. m - 1
  BY Constants DEF Word
<1>2. count = IF replies <= m - 1 - tx THEN replies ELSE m - 1 - tx
  BY DEF Sendable
<1> HIDE DEF m, count
<1>3. count \in Nat /\ tx + count \in 0 .. m - 1
  BY <1>1, <1>2
<1>4. ASSUME NEW k \in 0 .. m - 1 PROVE k % m = k
  <2>1. m \in Nat /\ m > 0 /\ k \in Nat /\ k < m
    BY <1>1
  <2> QED
    BY <2>1
<1>5. (tx + count) % m = tx + count
  BY <1>3, <1>4
<1>6. \A i \in 0 .. count - 1 : tx + i \in 0 .. m - 1 /\ (tx + i) % m = tx + i
  <2> SUFFICES ASSUME NEW i \in 0 .. count - 1
               PROVE  tx + i \in 0 .. m - 1 /\ (tx + i) % m = tx + i
    OBVIOUS
  <2>1. tx + i \in 0 .. m - 1
    BY <1>1, <1>3
  <2> QED
    BY <1>4, <2>1
<1> QED
  BY <1>1, <1>3, <1>5, <1>6 DEF m, count

(* A frame is taken by the session it was made for, while that lives; its  *)
(* nonce and those of the answers are new.                                 *)
LEMMA TakenFacts ==
    ASSUME IInv, NEW number, NEW counter \in Word, NEW replies \in 0 .. MaxReplies,
           Taken(Current, number, counter)
    PROVE  LET count == Sendable(s.tx, replies)
               sent == {<<number, (s.tx + i) % (2 * Half)>> : i \in 0 .. count - 1}
           IN  /\ Current = s /\ ~Expired(s) /\ s.authenticated = TRUE /\ number = s.number
               /\ counter \in Counters /\ ~Repeated(s.rx, counter)
               /\ <<number, counter>> \notin nonces /\ sent \cap nonces = {}
               /\ sent \subseteq Sessions \X Word
               /\ \A n, c : <<n, c>> \in sent => n = number /\ c >= s.tx /\ c < s.tx + count
<1> DEFINE count == Sendable(s.tx, replies)
           sent == {<<number, (s.tx + i) % (2 * Half)>> : i \in 0 .. count - 1}
<1>1. /\ Current.authenticated /\ number = Current.number
      /\ ~(counter >= Half) /\ ~Repeated(Current.rx, counter)
  BY DEF Taken, OfDevice
<1>2. /\ Current = s /\ ~Expired(s) /\ s.authenticated = TRUE /\ number = s.number
      /\ ~Repeated(s.rx, counter)
  BY <1>1, CurrentFacts, SecurityType DEF IInv, Closed, Security
<1>3. counter \in Counters /\ counter \in Nat
  BY <1>1, Constants DEF Counters, Word
<1>4. /\ s.tx \in Word /\ s.number \in Sessions /\ s.tx >= Half /\ s.tx \in Nat
      /\ s.rx \in [seen : BOOLEAN, counter : Nat, replay : SUBSET Bits]
      /\ Taking \in SUBSET Nat
  <2>1. s.rx \in Window32 /\ s.tx \in Word /\ s.number \in Sessions
    BY SecurityType DEF IInv, Security
  <2>2. Word \subseteq Nat /\ Counters \subseteq Nat
    BY Constants DEF Word, Counters
  <2> QED
    BY <1>2, <2>1, <2>2 DEF Window32, Bits, Taking, IInv, Nonces
<1>5. <<number, counter>> \notin nonces
  <2>1. counter \notin Taking
    BY <1>2, <1>3, <1>4, AdvancedExact DEF IInv, Nonces
  <2> QED
    BY <1>2, <1>3, <2>1 DEF Taking
<1>6. \A n, c : <<n, c>> \in sent =>
          n = number /\ c \in Word /\ c >= s.tx /\ c < s.tx + count
  <2> SUFFICES ASSUME NEW n, NEW c, <<n, c>> \in sent
               PROVE  n = number /\ c \in Word /\ c >= s.tx /\ c < s.tx + count
    OBVIOUS
  <2>1. PICK i \in 0 .. count - 1 : <<n, c>> = <<number, (s.tx + i) % (2 * Half)>>
    OBVIOUS
  <2>2. count \in Nat /\ (s.tx + i) % (2 * Half) = s.tx + i /\ s.tx + i \in Word
    BY <1>4, SendFacts
  <2> QED
    BY <1>4, <2>1, <2>2
<1>7. sent \cap nonces = {}
  <2> SUFFICES ASSUME NEW e \in sent, e \in nonces PROVE FALSE
    OBVIOUS
  <2>1. PICK i \in 0 .. count - 1 : e = <<number, (s.tx + i) % (2 * Half)>>
    OBVIOUS
  <2>2. PICK c : e = <<number, c>>
    BY <2>1
  <2>3. c \in Word /\ c >= s.tx
    BY <1>6, <2>2
  <2>4. c >= Half /\ c \in Int
    BY <1>4, <2>3, Constants DEF Word
  <2>5. c < s.tx
    BY <1>2, <2>2, <2>3, <2>4 DEF IInv, Nonces
  <2> QED
    BY <1>4, <2>3, <2>4, <2>5
<1>8. sent \subseteq Sessions \X Word
  <2> SUFFICES ASSUME NEW i \in 0 .. count - 1
               PROVE  <<number, (s.tx + i) % (2 * Half)>> \in Sessions \X Word
    OBVIOUS
  <2>1. (s.tx + i) % (2 * Half) \in Word
    BY <1>4, SendFacts
  <2> QED
    BY <1>2, <1>4, <2>1
<1> QED
  BY <1>2, <1>3, <1>5, <1>6, <1>7, <1>8

(* A session that has not expired is younger than its lifetime.            *)
LEMMA YoungSession ==
    ASSUME IInv, s.authenticated, ~Expired(s), Lifetime # 0
    PROVE  age < Lifetime
<1>1. /\ s.started \in Times /\ idle \in 0 .. IdleLimit /\ age \in 0 .. ClockModulus
      /\ age <= Lifetime + idle /\ now = (s.started + age) % ClockModulus
  BY SecurityType DEF IInv, TypeOK, HistoryTypes, Security, Ages
<1>2. age \in Nat /\ age < ClockModulus
  BY <1>1, Constants
<1>3. Since(s.started) = age
  BY <1>1, <1>2, ClockFacts
<1> QED
  BY <1>2, <1>3, Constants DEF Expired

(* A frame is executed and answered.                                       *)
LEMMA EncryptedStep ==
    ASSUME IInv, NEW number, NEW counter \in Word, NEW replies \in 0 .. MaxReplies,
           NEW commit \in BOOLEAN, NEW key \in Keys \cup {NoKey},
           Encrypted(number, counter, replies, commit, key)
    PROVE  IInv'
<1> DEFINE count == Sendable(s.tx, replies)
           sent == {<<number, (s.tx + i) % (2 * Half)>> : i \in 0 .. count - 1}
           window == Advanced(s.rx, counter)
           q == [s EXCEPT !.rx = window, !.tx = (@ + count) % (2 * Half)]
<1>1. /\ Taken(Current, number, counter)
      /\ UNCHANGED <<now, issued, guesses, age>> /\ idle' \in {0, idle}
      /\ config' = IF commit THEN key ELSE config
  BY DEF Encrypted
<1>2. /\ Current = s /\ ~Expired(s) /\ s.authenticated = TRUE /\ number = s.number
      /\ counter \in Counters /\ ~Repeated(s.rx, counter)
      /\ <<number, counter>> \notin nonces /\ sent \cap nonces = {}
      /\ sent \subseteq Sessions \X Word
      /\ \A n, c : <<n, c>> \in sent => n = number /\ c >= s.tx /\ c < s.tx + count
  BY <1>1, TakenFacts
<1>3. /\ s' = IF commit THEN Reset(q) ELSE q
      /\ nonces' = nonces \cup {<<number, counter>>} \cup sent
      /\ reused' = (reused \/ <<number, counter>> \in nonces \/ sent \cap nonces # {})
  BY <1>2 DEF Encrypted, After
<1>4. /\ s \in Security /\ s.tx \in Word /\ s.number \in Sessions /\ s.pending = FALSE
      /\ s.rx \in Window32 /\ s.attempts \in 0 .. Limit
  BY <1>2, SecurityType DEF IInv, Security
<1>5. /\ Half \in Nat /\ counter \in Word /\ counter \in Nat /\ counter < Half
      /\ Word \subseteq Nat /\ Taking \in SUBSET Nat
      /\ s.rx \in [seen : BOOLEAN, counter : Nat, replay : SUBSET Bits]
      /\ s.rx.counter \in Word /\ s.tx \in Nat /\ s.tx >= Half
  BY <1>2, <1>4, Constants DEF Counters, Word, Taking, Window32, Bits, IInv, Nonces
<1>6. /\ Exact(window, Taking \cup {counter})
      /\ window \in [seen : BOOLEAN, counter : {s.rx.counter, counter}, replay : SUBSET Bits]
  BY <1>2, <1>5, AdvancedExact DEF IInv, Nonces
<1>7. window \in Window32
  BY <1>5, <1>6 DEF Window32, Bits
<1> HIDE DEF window
<1>8. count \in Nat /\ (s.tx + count) % (2 * Half) = s.tx + count /\ s.tx + count \in Word
  BY <1>4, SendFacts
<1> HIDE DEF count
<1>9. /\ q \in Security /\ q.pending = s.pending /\ q.authenticated = s.authenticated
      /\ q.number = s.number /\ q.key = s.key /\ q.started = s.started
      /\ q.attempts = s.attempts /\ q.rx = window /\ q.tx = s.tx + count
  BY <1>4, <1>7, <1>8 DEF Security
<1> HIDE DEF q
<1>10. reused' = FALSE
  BY <1>2, <1>3 DEF IInv, HistoryTypes
<1>11. HistoryTypes'
  BY <1>1, <1>10 DEF IInv, HistoryTypes
<1>12. /\ nonces' \subseteq Sessions \X Word
       /\ issued \in 0 .. MaxChallenges /\ MaxChallenges \in Nat
       /\ now \in Times /\ idle' \in 0 .. IdleLimit /\ config' \in Keys \cup {NoKey}
       /\ guesses <= s.attempts + 1 /\ guesses <= Limit
  <2>1. <<number, counter>> \in Sessions \X Word /\ nonces \subseteq Sessions \X Word
    BY <1>2, <1>4, <1>5 DEF IInv, TypeOK
  <2>2. nonces' \subseteq Sessions \X Word
    BY <1>2, <1>3, <2>1
  <2>3. guesses <= s.attempts + 1 /\ guesses <= Limit
    BY <1>4, Constants DEF IInv, Guesses, HistoryTypes
  <2> QED
    BY <1>1, <2>2, <2>3, Constants DEF IInv, TypeOK
<1>13. \A n \in Sessions, c \in Word : <<n, c>> \in nonces' => n <= issued
  BY <1>2, <1>3 DEF IInv, Numbers
<1> HIDE DEF sent
<1>14. CASE commit
  <2>1. /\ Reset(q) \in Security /\ Reset(q).pending = FALSE /\ Reset(q).authenticated = FALSE
        /\ Reset(q).number = 0 /\ Reset(q).attempts = s.attempts
    BY <1>9, ResetFacts
  <2>2. s' = Reset(q)
    BY <1>3, <1>14
  <2>3. /\ s'.number <= issued' /\ issued' \in issued .. MaxChallenges /\ now' \in Times
        /\ guesses' <= s'.attempts + 1 /\ guesses' <= Limit
    BY <1>1, <1>12, <2>1, <2>2
  <2> QED
    BY <1>11, <1>12, <1>13, <2>1, <2>2, <2>3, ClosedStep
<1>15. CASE ~commit
  <2>1. s' = q /\ config' = config
    BY <1>1, <1>3, <1>15
  <2>2. TypeOK'
    BY <1>1, <1>4, <1>9, <1>12, <2>1 DEF TypeOK, Security, Window32, Bits
  <2>3. Numbers'
    BY <1>1, <1>4, <1>9, <1>13, <2>1 DEF IInv, Numbers
  <2>4. Nonces'
    <3>1. Taking' = Taking \cup {counter}
      <4> SUFFICES ASSUME NEW c \in Counters
                   PROVE  <<s.number, c>> \in nonces' <=> <<s.number, c>> \in nonces \/ c = counter
        BY <1>2, <1>9, <2>1 DEF Taking
      <4>1. c < Half /\ c \in Nat
        BY <1>5 DEF Counters
      <4>2. <<s.number, c>> \notin sent
        BY <1>2, <1>5, <4>1
      <4> QED
        BY <1>2, <1>3, <4>2
    <3>2. \A c \in Word : c >= Half /\ <<s.number, c>> \in nonces' => c < s.tx + count
      <4> SUFFICES ASSUME NEW c \in Word, c >= Half, <<s.number, c>> \in nonces'
                   PROVE  c < s.tx + count
        OBVIOUS
      <4>1. <<s.number, c>> \in nonces \/ <<s.number, c>> \in sent
        BY <1>2, <1>3, <1>5
      <4>2. <<s.number, c>> \in nonces => c < s.tx
        BY <1>2 DEF IInv, Nonces
      <4>3. <<s.number, c>> \in sent => c < s.tx + count
        BY <1>2
      <4>4. c \in Nat /\ (c < s.tx => c < s.tx + count)
        BY <1>5, <1>8
      <4> QED
        BY <4>1, <4>2, <4>3, <4>4
    <3>3. s.tx + count >= Half
      BY <1>5, <1>8
    <3> QED
      BY <1>6, <1>9, <2>1, <3>1, <3>2, <3>3 DEF Nonces
  <2>5. Guesses'
    BY <1>1, <1>9, <2>1 DEF IInv, Guesses
  <2>6. Ages'
    <3>1. Lifetime # 0 => age < Lifetime
      BY <1>2, YoungSession
    <3>2. Lifetime # 0 => age <= Lifetime + idle'
      <4> SUFFICES ASSUME Lifetime # 0 PROVE age <= Lifetime + idle'
        OBVIOUS
      <4>1. age < Lifetime
        BY <3>1
      <4>2. age \in Int /\ idle' \in Nat /\ Lifetime \in Nat
        BY <1>12, Constants DEF IInv, HistoryTypes
      <4>3. \A a \in Int, l \in Nat, i \in Nat : a < l => a <= l + i
        OBVIOUS
      <4> QED
        BY <4>1, <4>2, <4>3
    <3> QED
      BY <1>1, <1>4, <1>9, <2>1, <3>2 DEF IInv, Ages
  <2>7. SessionHasCurrentKey'
    BY <1>9, <2>1 DEF IInv, SessionHasCurrentKey
  <2> QED
    BY <1>11, <2>2, <2>3, <2>4, <2>5, <2>6, <2>7 DEF IInv
<1> QED
  BY <1>14, <1>15

-----------------------------------------------------------------------------

LEMMA Step == IInv /\ [Next]_vars => IInv'
<1> SUFFICES ASSUME IInv, [Next]_vars PROVE IInv'
  OBVIOUS
<1>1. CASE Next
  BY <1>1, ChallengeStep, ProofStep, QuietCommands, EncryptedStep, EndStep, TickStep DEF Next
<1>2. CASE UNCHANGED vars
  <2>1. s' = s /\ UNCHANGED <<config, now, idle, issued, guesses, age, nonces, reused>>
    BY <1>2 DEF vars, history
  <2>2. Taking' = Taking
    BY <2>1 DEF Taking
  <2>3. Nonces'
    BY <2>1, <2>2 DEF IInv, Nonces, Exact
  <2> QED
    BY <2>1, <2>3 DEF IInv, TypeOK, HistoryTypes, Numbers, Guesses, Ages, SessionHasCurrentKey
<1> QED
  BY <1>1, <1>2

LEMMA Invariance == Spec => []IInv
BY InitIInv, Step, PTL DEF Spec

(* The state of a session stays within its types; counters do not wrap.    *)
THEOREM SessionTypeCorrect == Spec => []TypeOK
BY Invariance, PTL DEF IInv

(* No nonce is used twice under one session key: not by a repeated frame,  *)
(* not by a session that follows, and not by the device.                   *)
THEOREM NoncesAreFresh == Spec => []NoncesAreUsedOnce
<1>1. IInv => NoncesAreUsedOnce
  BY DEF IInv, HistoryTypes, NoncesAreUsedOnce
<1> QED
  BY Invariance, <1>1, PTL

(* No more proofs are examined in a rate window than it has attempts, the  *)
(* one of a challenge left over from the window before included.           *)
THEOREM GuessesStayLimited == Spec => []GuessesAreLimited
<1>1. IInv => GuessesAreLimited
  BY DEF IInv, Guesses, GuessesAreLimited
<1> QED
  BY Invariance, <1>1, PTL

(* A session was agreed on with the key the configuration has now.         *)
THEOREM SessionKeyIsCurrent == Spec => []SessionHasCurrentKey
BY Invariance, PTL DEF IInv

(* When the rate window began is kept, unless a handshake begins another.  *)
LEMMA RateTimes ==
    ASSUME TypeOK
    PROVE  /\ Current.rate_time = s.rate_time
           /\ ~NewWindow => Limited.rate_time = s.rate_time
           /\ \A q \in Security : Reset(q).rate_time = q.rate_time
<1>1. ASSUME NEW q \in Security PROVE Reset(q).rate_time = q.rate_time
  BY ZeroFacts DEF Reset, Security
<1>2. Current.rate_time = s.rate_time
  BY <1>1, SecurityType DEF Current
<1> QED
  BY <1>1, <1>2 DEF Limited

(* No proof of an old challenge is examined and no command of an expired   *)
(* session runs, wherever the clock wraps.                                 *)
THEOREM TimesAreKept == Spec => NothingOutlivesItsTime
<1> DEFINE Timely == /\ Examined => age < ChallengeLife
                     /\ nonces' # nonces /\ Lifetime # 0 => age < Lifetime
<1>1. IInv /\ [Next]_vars => [Timely]_vars
  <2> SUFFICES ASSUME IInv, Next PROVE Timely
    OBVIOUS
  <2>1. guesses \in Nat /\ TypeOK /\ Current \in Security /\ Limited \in Security
    BY CurrentFacts, LimitedFacts DEF IInv, HistoryTypes
  <2>2. ASSUME NEW number, NEW key \in Keys, NEW works \in BOOLEAN, Proof(number, key, works)
        PROVE  Timely
    <3>1. Limited.pending /\ Since(Limited.started) < ChallengeLife /\ nonces' = nonces
      BY <2>2 DEF Proof, Answerable
    <3>2. s.pending /\ Limited.started = s.started
      BY <3>1, LimitedFacts DEF IInv, Same, Closed
    <3>3. /\ s.started \in Times /\ idle \in 0 .. IdleLimit /\ age \in 0 .. ClockModulus
          /\ age <= idle /\ now = (s.started + age) % ClockModulus
      BY <3>2, SecurityType DEF IInv, TypeOK, HistoryTypes, Security, Ages
    <3>4. age \in Nat /\ age < ClockModulus
      BY <3>3, Constants
    <3>5. Since(s.started) = age
      BY <3>3, <3>4, ClockFacts
    <3> QED
      BY <3>1, <3>2, <3>5
  <2>3. ASSUME NEW number, NEW counter \in Word, NEW replies \in 0 .. MaxReplies,
               NEW commit \in BOOLEAN, NEW key \in Keys \cup {NoKey},
               Encrypted(number, counter, replies, commit, key)
        PROVE  Timely
    <3>1. Taken(Current, number, counter) /\ guesses' = guesses
      BY <2>3 DEF Encrypted
    <3>2. s.authenticated /\ ~Expired(s)
      BY <3>1, TakenFacts
    <3>3. s'.rate_time = s.rate_time
      <4> DEFINE q == [Current EXCEPT !.rx = Advanced(@, counter),
                                       !.tx = (@ + Sendable(Current.tx, replies)) % (2 * Half)]
      <4>1. q.rate_time = s.rate_time
        BY <2>1, RateTimes DEF Security
      <4>2. s' = After(q, commit)
        BY <2>3 DEF Encrypted
      <4> HIDE DEF q
      <4>3. \A x : Reset(x).rate_time = x.rate_time
        BY DEF Reset, Zero
      <4> QED  BY <4>1, <4>2, <4>3 DEF After
    <3> QED
      BY <2>1, <3>1, <3>2, <3>3, YoungSession DEF Examined
  <2>4. ASSUME NEW random \in BOOLEAN, Challenge(random) PROVE Timely
    <3>1. nonces' = nonces /\ guesses' = IF NewWindow THEN 0 ELSE guesses
      BY <2>4 DEF Challenge
    <3>2. ~NewWindow => s'.rate_time = s.rate_time
      <4> DEFINE q == [Reset(Limited) EXCEPT !.attempts = @ + 1]
      <4>1. Reset(Limited).rate_time = Limited.rate_time /\ Reset(Limited) \in Security
        BY <2>1, RateTimes, ResetFacts
      <4>2. /\ q.rate_time = Limited.rate_time
            /\ [q EXCEPT !.pending = TRUE, !.number = issued + 1, !.started = now].rate_time
                   = Limited.rate_time
        BY <4>1 DEF Security
      <4>3. \/ s' = q
            \/ s' = [q EXCEPT !.pending = TRUE, !.number = issued + 1, !.started = now]
        BY <2>4 DEF Challenge
      <4> QED  BY <2>1, <4>2, <4>3, RateTimes
    <3> QED
      BY <2>1, <3>1, <3>2 DEF Examined
  <2>5. CASE NoProof \/ AuthRefused
    <3>1. /\ nonces' = nonces
          /\ \/ s' = Current /\ guesses' = guesses
             \/ /\ s' \in {Limited, [Limited EXCEPT !.pending = FALSE]}
                /\ guesses' = IF NewWindow THEN 0 ELSE guesses
      BY <2>5 DEF NoProof, AuthRefused
    <3>2. [Limited EXCEPT !.pending = FALSE].rate_time = Limited.rate_time
      BY <2>1 DEF Security
    <3>3. CASE s' = Current /\ guesses' = guesses
      BY <2>1, <3>1, <3>3, RateTimes DEF Examined
    <3>4. CASE NewWindow /\ guesses' = 0
      BY <2>1, <3>1, <3>4 DEF Examined
    <3>5. CASE ~NewWindow /\ guesses' = guesses /\ s'.rate_time = Limited.rate_time
      BY <2>1, <3>1, <3>5, RateTimes DEF Examined
    <3> QED
      BY <3>1, <3>2, <3>3, <3>4, <3>5
  <2>6. CASE FrameRefused \/ Disconnect \/ Reboot \/ Tick
    <3>1. nonces' = nonces /\ (guesses' = 0 \/ (guesses' = guesses /\ s' \in {s, Current, Reset(s)}))
      BY <2>6 DEF FrameRefused, Disconnect, Reboot, Tick, history
    <3> QED
      BY <2>1, <3>1, RateTimes, SecurityType DEF Examined
  <2>7. ASSUME NEW commit \in BOOLEAN, NEW key \in Keys \cup {NoKey}, Plain(commit, key)
        PROVE  Timely
    <3>1. nonces' = nonces /\ guesses' = guesses /\ s' \in {Current, Reset(Current)}
      BY <2>7 DEF Plain, After, history
    <3> QED
      BY <2>1, <3>1, RateTimes DEF Examined
  <2> QED
    BY <2>2, <2>3, <2>4, <2>5, <2>6, <2>7 DEF Next
<1> QED
  BY Invariance, <1>1, PTL DEF Spec, NothingOutlivesItsTime

-----------------------------------------------------------------------------
(* The window by itself, for any set of counters: ReplayWindow implements  *)
(* FreshCounters.                                                          *)

WindowInv == WindowTypeOK /\ Exact(rx, accepted)

LEMMA WindowTypes ==
    ASSUME WindowInv
    PROVE  /\ rx \in [seen : BOOLEAN, counter : FrameCounters \cup {0}, replay : SUBSET Bits]
           /\ rx \in [seen : BOOLEAN, counter : Nat, replay : SUBSET Bits]
           /\ accepted \in SUBSET Nat /\ accepted \subseteq FrameCounters
           /\ Exact(rx, accepted)
<1>1. /\ rx \in [seen : BOOLEAN, counter : FrameCounters \cup {0}, replay : SUBSET Bits]
      /\ accepted \subseteq FrameCounters /\ Exact(rx, accepted)
  BY DEF WindowInv, WindowTypeOK, Bits
<1>2. FrameCounters \cup {0} \subseteq Nat
  BY FramesAssumption
<1>3. rx \in [seen : BOOLEAN, counter : Nat, replay : SUBSET Bits]
  BY <1>1, <1>2
<1> QED
  BY <1>1, <1>2, <1>3

(* A frame is taken by the window, which promised that.                    *)
LEMMA WindowAccepts ==
    ASSUME WindowInv, NEW counter \in FrameCounters, ~Repeated(rx, counter), Decrypt(counter, TRUE)
    PROVE  WindowInv' /\ Promise!Accept(counter)
<1>1. /\ rx \in [seen : BOOLEAN, counter : FrameCounters \cup {0}, replay : SUBSET Bits]
      /\ rx \in [seen : BOOLEAN, counter : Nat, replay : SUBSET Bits]
      /\ accepted \in SUBSET Nat /\ accepted \subseteq FrameCounters /\ counter \in Nat
      /\ Exact(rx, accepted)
  BY WindowTypes, FramesAssumption
<1>2. /\ rx' = Advanced(rx, counter) /\ accepted' = accepted \cup {counter}
      /\ answer' = "accepted" /\ ~Repeated(rx, counter)
  BY DEF Decrypt
<1>3. /\ counter \notin accepted /\ Exact(rx', accepted')
      /\ rx' \in [seen : BOOLEAN, counter : {rx.counter, counter}, replay : SUBSET Bits]
  BY <1>1, <1>2, AdvancedExact
<1>4. WindowInv'
  <2>1. rx' \in [seen : BOOLEAN, counter : FrameCounters \cup {0}, replay : SUBSET Bits]
    BY <1>1, <1>3
  <2> QED
    BY <1>1, <1>2, <1>3, <2>1 DEF WindowInv, WindowTypeOK, Bits
<1>5. \A a \in accepted : a - counter < Window
  <2> SUFFICES ASSUME NEW a \in accepted PROVE a - counter < Window
    OBVIOUS
  <2>1. rx.seen /\ a <= rx.counter /\ rx.counter \in Nat /\ a \in Nat
    BY <1>1 DEF Exact
  <2>2. counter <= rx.counter => rx.counter - counter < Window
    BY <1>1, <1>2, <2>1, Constants DEF Repeated
  <2> QED
    BY <1>1, <2>1, <2>2, Constants
<1> QED
  BY <1>2, <1>3, <1>4, <1>5 DEF Promise!Accept

(* A frame is repeated, or so old that the window cannot tell.             *)
LEMMA WindowRepeats ==
    ASSUME WindowInv, NEW counter \in FrameCounters, Repeated(rx, counter)
    PROVE  counter \in accepted \/ \E a \in accepted : a - counter >= Window
<1>1. /\ rx \in [seen : BOOLEAN, counter : Nat, replay : SUBSET Bits]
      /\ counter \in Nat /\ Exact(rx, accepted) /\ Bits = 0 .. Window - 1
  BY WindowTypes, FramesAssumption DEF Bits
<1>2. /\ rx.seen /\ counter <= rx.counter
      /\ rx.counter - counter >= Window \/ rx.counter - counter \in rx.replay
  BY DEF Repeated
<1>3. CASE rx.counter - counter >= Window
  BY <1>1, <1>2, <1>3 DEF Exact
<1>4. CASE rx.counter - counter \in rx.replay
  <2>1. rx.counter - counter \in Bits /\ rx.counter - (rx.counter - counter) = counter
    BY <1>1, <1>4
  <2> QED
    BY <1>1, <1>2, <1>4, <2>1 DEF Exact
<1> QED
  BY <1>2, <1>3, <1>4

LEMMA WindowStep ==
    ASSUME WindowInv, [WindowNext]_windowVars
    PROVE  WindowInv' /\ [Promise!Next]_<<accepted, answer>>
<1>1. ASSUME UNCHANGED <<rx, accepted>>, answer' \in {"none", "accepted", "repeated", "bad"}
      PROVE  WindowInv'
  BY <1>1 DEF WindowInv, WindowTypeOK, Exact
<1>2. ASSUME NEW counter \in FrameCounters, NEW authentic \in BOOLEAN,
             Decrypt(counter, authentic)
      PROVE  WindowInv' /\ Promise!Next
  <2>1. CASE Repeated(rx, counter)
    <3>1. answer' = "repeated" /\ UNCHANGED <<rx, accepted>>
      BY <1>2, <2>1 DEF Decrypt
    <3>2. Promise!Repeat(counter)
      BY <2>1, <3>1, WindowRepeats DEF Promise!Repeat
    <3> QED
      BY <1>1, <3>1, <3>2 DEF Promise!Next
  <2>2. CASE ~Repeated(rx, counter) /\ authentic
    <3>1. Decrypt(counter, TRUE)
      BY <1>2, <2>2 DEF Decrypt
    <3> QED
      BY <2>2, <3>1, WindowAccepts DEF Promise!Next
  <2>3. CASE ~Repeated(rx, counter) /\ ~authentic
    <3>1. answer' = "bad" /\ UNCHANGED <<rx, accepted>>
      BY <1>2, <2>3 DEF Decrypt
    <3> QED
      BY <1>1, <3>1 DEF Promise!Next, Promise!Bad
  <2> QED
    BY <2>1, <2>2, <2>3
<1>3. CASE Refused
  BY <1>1, <1>3 DEF Refused, Promise!Next, Promise!Bad
<1>4. CASE UNCHANGED windowVars
  BY <1>4 DEF windowVars, WindowInv, WindowTypeOK, Exact
<1> QED
  BY <1>2, <1>3, <1>4 DEF WindowNext

LEMMA WindowInvariance == WindowSpec => []WindowInv
<1>1. WindowInit => WindowInv
  BY DEF WindowInit, WindowInv, WindowTypeOK, Fresh, Exact
<1>2. WindowInv /\ [WindowNext]_windowVars => WindowInv'
  BY WindowStep
<1> QED
  BY <1>1, <1>2, PTL DEF WindowSpec

(* The window remembers exactly the accepted counters it has room for.     *)
THEOREM WindowStaysExact == WindowSpec => []WindowIsExact
<1>1. WindowInv => WindowIsExact
  BY DEF WindowInv, WindowIsExact, Bits, Exact
<1> QED
  BY WindowInvariance, <1>1, PTL

(* No counter is accepted twice, and no frame is refused that is new.      *)
THEOREM KeepsPromise == WindowSpec => ImplementsFreshCounters
<1>1. WindowInit => Promise!Init
  BY DEF WindowInit, Promise!Init
<1>2. WindowInv /\ [WindowNext]_windowVars => [Promise!Next]_<<accepted, answer>>
  BY WindowStep
<1> QED
  BY WindowInvariance, <1>1, <1>2, PTL DEF WindowSpec, ImplementsFreshCounters, Promise!Spec

=============================================================================
