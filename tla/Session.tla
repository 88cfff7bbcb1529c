------------------------------- MODULE Session -------------------------------
(***************************************************************************)
(* src/security.c with its callers in src/main.c: handshake, limiter,      *)
(* session and its end.  A command is dispatched in one step of the main   *)
(* loop.                                                                   *)
(*                                                                         *)
(* Challenges are numbered, as random ones never repeat, and a session has *)
(* the number of the challenge it was agreed on with.  Cryptography is     *)
(* perfect: a proof or a frame passes only if it was made with the key.    *)
(* Peers record and repeat what they like.  Time passes in ticks.          *)
(***************************************************************************)
EXTENDS Integers, ReplayMask

CONSTANTS
    Keys,           \* keys a configuration may hold
    NoKey,          \* authentication is off
    Half,           \* counters of the client are below it: 2^63
    Limit,          \* handshakes in a rate window: 10
    RateWindow,     \* 60 s
    ChallengeLife,  \* 30 s
    Lifetime,       \* of a session, from the configuration; 0 for none
    IdleLimit,      \* a link without accepted commands is closed: LINK_IDLE_MS
    ClockModulus,   \* k_uptime_get_32 wraps: 2^32 ms
    MaxReplies,     \* bound: responses to a command
    MaxChallenges   \* bound: handshakes

ASSUME SessionAssumption ==
    /\ NoKey \notin Keys
    /\ {Half, Limit, RateWindow, ChallengeLife, ClockModulus} \subseteq Nat \ {0}
    /\ {Lifetime, IdleLimit, MaxReplies, MaxChallenges} \subseteq Nat
    /\ ClockModulus > IdleLimit + Lifetime
    /\ ClockModulus > IdleLimit + ChallengeLife

VARIABLES
    s,          \* struct od_security
    config,     \* the key of the configuration in force
    now,        \* k_uptime_get_32
    idle        \* ticks since the last accepted command: last_activity in main

VARIABLES
    issued,     \* history: challenges issued
    guesses,    \* history: proofs examined in this rate window
    age,        \* history: ticks since the challenge or the session started
    nonces,     \* history: session and counter of every frame accepted or sent
    reused      \* history: such a pair was used twice

history == <<issued, guesses, age, nonces, reused>>
vars == <<s, config, now, idle, history>>

Counters == 0 .. Half - 1
Word == 0 .. 2 * Half - 1

Times == 0 .. ClockModulus - 1
Sessions == 0 .. MaxChallenges

TypeOK ==
    /\ s \in [pending : BOOLEAN, authenticated : BOOLEAN, number : Sessions, key : Keys \cup {NoKey},
              started : Times, tx : Word, rate_time : Times, attempts : 0 .. Limit,
              rx : [seen : BOOLEAN, counter : Word, replay : SUBSET Bits]]
    /\ ~(s.pending /\ s.authenticated)
    /\ config \in Keys \cup {NoKey}
    /\ now \in Times
    /\ idle \in 0 .. IdleLimit
    /\ issued \in 0 .. MaxChallenges
    /\ nonces \subseteq Sessions \X Word

(* The two arms of the union share started; an arm that is not in use has  *)
(* the values it will be given.                                            *)
Zero ==
    [pending |-> FALSE, authenticated |-> FALSE, number |-> 0, key |-> NoKey,
     started |-> 0, tx |-> Half, rate_time |-> 0, attempts |-> 0, rx |-> Fresh]

Init ==
    /\ s = Zero
    /\ config \in Keys \cup {NoKey}
    /\ now = 0 /\ idle = 0
    /\ issued = 0 /\ guesses = 0 /\ age = 0
    /\ nonces = {} /\ reused = FALSE

-----------------------------------------------------------------------------

(* Mutant: everything is wiped.                                            *)
ResetAll(q) == Zero

(* od_security_reset: the limiter survives.                                *)
Reset(q) == [Zero EXCEPT !.rate_time = q.rate_time, !.attempts = q.attempts]

(* Unsigned 32-bit subtraction.                                            *)
Since(time) == (now - time) % ClockModulus

(* Mutant: the deadline is computed and compared.                          *)
ExpiredByDeadline(q) ==
    q.authenticated /\ Lifetime # 0 /\ now >= (q.started + Lifetime) % ClockModulus

Expired(q) == q.authenticated /\ Lifetime # 0 /\ Since(q.started) >= Lifetime

(* od_security_expire, with which dispatch begins.                         *)
Current == IF Expired(s) THEN Reset(s) ELSE s

(* The next command of a peer is dispatched.  Handshakes and refused       *)
(* commands do not keep the link alive.                                    *)
Dispatch == UNCHANGED <<now, idle>>

-----------------------------------------------------------------------------
(* 0x50: od_security_auth                                                  *)

NewWindow == Since(s.rate_time) >= RateWindow

(* The limiter before it decides.                                          *)
Limited ==
    IF NewWindow THEN [Current EXCEPT !.attempts = 0, !.rate_time = now] ELSE Current

(* Mutant: attempts are counted but not limited.                           *)
AllowedAlways == config # NoKey

Allowed == config # NoKey /\ Limited.attempts < Limit

(* The first step: a new challenge, and an attempt, also if there are no   *)
(* random numbers.                                                         *)
Challenge(random) ==
    /\ Dispatch
    /\ Allowed /\ issued < MaxChallenges
    /\ LET q == [Reset(Limited) EXCEPT !.attempts = @ + 1]
       IN  s' = IF random
                THEN [q EXCEPT !.pending = TRUE, !.number = issued + 1, !.started = now]
                ELSE q
    /\ issued' = issued + 1
    /\ guesses' = IF NewWindow THEN 0 ELSE guesses
    /\ age' = 0
    /\ UNCHANGED <<config, nonces, reused>>

Answerable(q) == q.pending /\ Since(q.started) < ChallengeLife

(* The second step: the proof is of some challenge and made with some key. *)
(* A cipher that fails makes it fail.                                      *)
Proof(number, key, works) ==
    /\ Dispatch
    /\ Allowed /\ Answerable(Limited)
    /\ LET q == Limited
       IN  IF works /\ number = q.number /\ key = config
           THEN /\ s' = [Reset(q) EXCEPT !.authenticated = TRUE, !.number = number,
                                         !.key = key, !.started = now]
                /\ age' = 0
           ELSE /\ s' = Reset(q)
                /\ UNCHANGED age
    /\ guesses' = 1 + IF NewWindow THEN 0 ELSE guesses
    /\ UNCHANGED <<config, issued, nonces, reused>>

(* No proof is expected, or it is too late, or it has the wrong length.    *)
NoProof ==
    /\ Dispatch
    /\ Allowed
    /\ s' = [Limited EXCEPT !.pending = FALSE]
    /\ guesses' = IF NewWindow THEN 0 ELSE guesses
    /\ UNCHANGED <<config, issued, age, nonces, reused>>

(* Authentication is off, or there were too many attempts.                 *)
AuthRefused ==
    /\ Dispatch
    /\ ~Allowed
    /\ s' = IF config = NoKey THEN Current ELSE Limited
    /\ guesses' = IF config # NoKey /\ NewWindow THEN 0 ELSE guesses
    /\ UNCHANGED <<config, issued, age, nonces, reused>>

-----------------------------------------------------------------------------
(* Every other command.                                                    *)

(* od_security_encrypt refuses the last counter.                           *)
Sendable(tx, replies) ==
    IF replies <= 2 * Half - 1 - tx THEN replies ELSE 2 * Half - 1 - tx

(* Mutant: a new configuration leaves the session as it is.                *)
AfterKeeping(q, commit) == q

(* The main loop after a command that may have committed a configuration.  *)
After(q, commit) == IF commit THEN Reset(q) ELSE q

(* Mutant: whatever passes the tag comes from the client.                  *)
OfDeviceNever(counter) == FALSE

(* The counters of the device are those of the other half.                 *)
OfDevice(counter) == counter >= Half

(* od_security_decrypt takes the frame.  The device's own frames pass the  *)
(* tag too.                                                                *)
Taken(q, number, counter) ==
    /\ q.authenticated /\ number = q.number
    /\ ~OfDevice(counter)
    /\ ~Repeated(q.rx, counter)
    /\ counter < Half \/ <<number, counter>> \in nonces

(* The command runs, is answered and may change the configuration.         *)
Encrypted(number, counter, replies, commit, key) ==
    LET q == Current
        count == Sendable(q.tx, replies)
        sent == {<<number, (q.tx + i) % (2 * Half)>> : i \in 0 .. count - 1}
    IN  /\ UNCHANGED now /\ idle' \in {0, idle}
        /\ config # NoKey /\ Taken(q, number, counter)
        /\ s' = After([q EXCEPT !.rx = Advanced(@, counter),
                                !.tx = (@ + count) % (2 * Half)], commit)
        /\ config' = IF commit THEN key ELSE config
        /\ nonces' = nonces \cup {<<number, counter>>} \cup sent
        /\ reused' = (reused \/ <<number, counter>> \in nonces \/ sent \cap nonces # {})
        /\ UNCHANGED <<issued, guesses, age>>

(* A frame that is refused: no session, another one, a repeat, a bad tag;  *)
(* or the version query, which is plain.                                   *)
FrameRefused ==
    /\ Dispatch
    /\ config # NoKey
    /\ s' = Current
    /\ UNCHANGED <<config, history>>

(* Without authentication commands are plain.                              *)
Plain(commit, key) ==
    /\ Dispatch
    /\ config = NoKey
    /\ s' = After(Current, commit)
    /\ config' = IF commit THEN key ELSE config
    /\ UNCHANGED history

-----------------------------------------------------------------------------

(* The link ends; the main loop cleans up before the next command.         *)
Disconnect ==
    /\ s' = Reset(s)
    /\ idle' = 0
    /\ UNCHANGED <<config, now, history>>

(* 0x0f, the watchdog or a power failure.                                  *)
Reboot ==
    /\ s' = Zero
    /\ now' = 0 /\ idle' = 0
    /\ guesses' = 0
    /\ UNCHANGED <<config, issued, age, nonces, reused>>

(* The main loop hangs up on an idle link, which ends what is pending or   *)
(* open; without either, idle has no effect.                               *)
Open == s.pending \/ s.authenticated

Tick ==
    /\ Open => idle < IdleLimit
    /\ now' = (now + 1) % ClockModulus
    /\ idle' = IF Open THEN idle + 1 ELSE 0
    /\ age' = IF Open /\ age < ClockModulus THEN age + 1 ELSE age
    /\ UNCHANGED <<s, config, issued, guesses, nonces, reused>>

Next ==
    \/ \E random \in BOOLEAN : Challenge(random)
    \/ \E number \in 1 .. issued, key \in Keys, works \in BOOLEAN : Proof(number, key, works)
    \/ NoProof \/ AuthRefused
    \/ \E number \in 1 .. issued, counter \in Word, replies \in 0 .. MaxReplies,
          commit \in BOOLEAN, key \in Keys \cup {NoKey} :
             Encrypted(number, counter, replies, commit, key)
    \/ FrameRefused
    \/ \E commit \in BOOLEAN, key \in Keys \cup {NoKey} : Plain(commit, key)
    \/ Disconnect \/ Reboot \/ Tick

Spec == Init /\ [][Next]_vars

-----------------------------------------------------------------------------

(* Under one session key no nonce is used twice: no frame of the client is *)
(* executed again, in this session or a later one, no frame of the device  *)
(* is taken for one of the client, and the device repeats none.            *)
NoncesAreUsedOnce == ~reused

(* However handshakes, failures and reconnects are ordered, no more proofs *)
(* are examined in a rate window than it has attempts, those of challenges *)
(* left over from the window before included.                              *)
GuessesAreLimited == guesses <= Limit

(* A session is worth what the configuration says now: it was agreed on    *)
(* with the key in force.                                                  *)
SessionHasCurrentKey == s.authenticated => s.key = config

(* A proof is examined: in the rate window that is open, or in one that it *)
(* opens.                                                                  *)
Examined ==
    guesses' > guesses \/ (guesses' > 0 /\ s'.rate_time # s.rate_time)

(* No proof is examined when its challenge is too old, and no command runs *)
(* in a session that is, although the clock wraps.                         *)
NothingOutlivesItsTime ==
    [][ /\ Examined => age < ChallengeLife
        /\ nonces' # nonces /\ Lifetime # 0 => age < Lifetime ]_vars

=============================================================================
