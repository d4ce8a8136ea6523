-------------------------- MODULE OAuthStateProofs --------------------------
(***************************************************************************)
(* Proofs about OAuthState, for every number of states, callbacks and      *)
(* retries and every Ttl: its inductive invariant, the single validation   *)
(* of a state, that someone is validated, and the implementation of        *)
(* OneTimeState.                                                           *)
(***************************************************************************)
EXTENDS OAuthState, TLAPS

-----------------------------------------------------------------------------
(* How the steps change the callbacks                                      *)

\* A step that writes one callback, field by field.
LEMMA CallbackUpdate ==
    ASSUME TypeOK, NEW c \in Callbacks, NEW x \in Callback, cb' = [cb EXCEPT ![c] = x]
    PROVE  /\ cb' \in [Callbacks -> Callback]
           /\ cb'[c] = x
           /\ \A d \in Callbacks \ {c} : cb'[d] = cb[d]
BY DEF TypeOK

\* Moving a callback on leaves its other fields as they were.
LEMMA GotoCallback ==
    ASSUME TypeOK, NEW c \in Callbacks, NEW pc \in PC, Goto(c, pc)
    PROVE  /\ cb' \in [Callbacks -> Callback]
           /\ cb'[c].pc = pc
           /\ cb'[c].state = cb[c].state /\ cb'[c].getValue = cb[c].getValue
           /\ cb'[c].delResult = cb[c].delResult /\ cb'[c].retries = cb[c].retries
           /\ \A d \in Callbacks \ {c} : cb'[d] = cb[d]
<1> DEFINE x == [cb[c] EXCEPT !.pc = pc]
<1>1. x \in Callback
  BY DEF TypeOK, Callback
<1>2. cb' = [cb EXCEPT ![c] = x]
  BY DEF Goto, TypeOK
<1> QED BY <1>1, <1>2, CallbackUpdate DEF TypeOK, Callback

\* The fields after a callback comes in, after each of its Redis commands, and after a
\* retry.
LEMMA PresentCallback ==
    ASSUME TypeOK, NEW c \in Callbacks, Present(c)
    PROVE  /\ cb' \in [Callbacks -> Callback]
           /\ cb[c].pc = "idle" /\ cb'[c].pc = "get"
           /\ cb'[c].state \in States /\ phase[cb'[c].state] = "offered"
           /\ cb'[c].getValue = cb[c].getValue
           /\ \A d \in Callbacks \ {c} : cb'[d] = cb[d]
<1> PICK s \in States : phase[s] = "offered"
                        /\ cb' = [cb EXCEPT ![c].pc = "get", ![c].state = s]
  BY DEF Present
<1> DEFINE x == [cb[c] EXCEPT !.pc = "get", !.state = s]
<1>1. x \in Callback /\ cb[c] \in Callback
  BY ZenonT(30) DEF TypeOK, Callback, PC
<1>2. cb' = [cb EXCEPT ![c] = x]
  BY DEF TypeOK
<1>3. cb'[c] = x
  BY <1>1, <1>2, CallbackUpdate
<1>4. x.pc = "get" /\ x.state = s /\ x.getValue = cb[c].getValue
  BY <1>1 DEF Callback
<1>5. cb'[c].pc = "get" /\ cb'[c].state = s /\ cb'[c].getValue = cb[c].getValue
  BY <1>3, <1>4
<1> QED BY <1>1, <1>2, <1>5, CallbackUpdate DEF Present

LEMMA GetCallback ==
    ASSUME TypeOK, NEW c \in Callbacks, cb[c].state \in States, GetState(c)
    PROVE  /\ cb' \in [Callbacks -> Callback]
           /\ cb[c].pc = "get" /\ cb'[c].pc = "del"
           /\ cb'[c].state = cb[c].state
           /\ cb'[c].getValue = IF Live(cb[c].state)
                                THEN store[cb[c].state].timestamp ELSE None
           /\ \A d \in Callbacks \ {c} : cb'[d] = cb[d]
<1> DEFINE s == cb[c].state
           v == IF Live(s) THEN store[s].timestamp ELSE None
           x == [cb[c] EXCEPT !.pc = "del", !.getValue = v]
<1>1. v \in Nat \cup {None}
  BY DEF TypeOK, Live, OAuthStateData
<1> HIDE DEF v
<1>2. x \in Callback /\ cb[c] \in Callback
  BY <1>1 DEF TypeOK, Callback, PC
<1>3. cb' = [cb EXCEPT ![c] = x]
  BY DEF GetState, TypeOK, v
<1>4. cb'[c] = x
  BY <1>2, <1>3, CallbackUpdate
<1>5. cb'[c].pc = "del" /\ cb'[c].state = cb[c].state /\ cb'[c].getValue = v
  BY <1>2, <1>4 DEF Callback
<1> QED BY <1>2, <1>3, <1>5, CallbackUpdate DEF GetState, v

LEMMA DelCallback ==
    ASSUME TypeOK, NEW c \in Callbacks, cb[c].state \in States, DelState(c)
    PROVE  /\ cb' \in [Callbacks -> Callback]
           /\ cb[c].pc = "del" /\ cb'[c].pc = "reply"
           /\ cb'[c].state = cb[c].state /\ cb'[c].getValue = cb[c].getValue
           /\ cb'[c].delResult = 1 => store[cb[c].state] # None
           /\ Live(cb[c].state) => cb'[c].delResult = 1
           /\ \A d \in Callbacks \ {c} : cb'[d] = cb[d]
           /\ store' \in [States -> OAuthStateData \cup {None}]
           /\ store'[cb[c].state] = None
           /\ \A s \in States \ {cb[c].state} : store'[s] = store[s]
<1> DEFINE n == IF Live(cb[c].state) THEN 1 ELSE 0
           x == [cb[c] EXCEPT !.pc = "reply", !.delResult = n]
<1>1. /\ n \in {0, 1} /\ (n = 1 => store[cb[c].state] # None)
      /\ Live(cb[c].state) => n = 1
  BY DEF Live
<1>2. cb' = [cb EXCEPT ![c] = x]
  BY DEF DelState, TypeOK
<1> HIDE DEF n
<1>3. x \in Callback /\ cb[c] \in Callback
  BY <1>1 DEF TypeOK, Callback, PC
<1>4. cb'[c] = x
  BY <1>2, <1>3, CallbackUpdate
<1>5. /\ cb'[c].pc = "reply" /\ cb'[c].delResult = n
      /\ cb'[c].state = cb[c].state /\ cb'[c].getValue = cb[c].getValue
  BY <1>3, <1>4 DEF Callback
<1>6. /\ store' \in [States -> OAuthStateData \cup {None}]
      /\ store'[cb[c].state] = None
      /\ \A s \in States \ {cb[c].state} : store'[s] = store[s]
  BY DEF DelState, TypeOK
<1> QED BY ZenonT(30), <1>1, <1>2, <1>3, <1>5, <1>6, CallbackUpdate DEF DelState

LEMMA LoseCallback ==
    ASSUME TypeOK, NEW c \in Callbacks, LoseReplies(c)
    PROVE  /\ cb' \in [Callbacks -> Callback]
           /\ cb[c].pc \in InRedis /\ cb'[c].pc \in {"get", "invalid"}
           /\ cb'[c].state = cb[c].state
           /\ cb'[c].getValue \in {cb[c].getValue, None}
           /\ \A d \in Callbacks \ {c} : cb'[d] = cb[d]
<1> DEFINE n == cb[c].retries + 1
           x == [cb[c] EXCEPT !.pc = "get", !.getValue = None, !.delResult = 0,
                              !.retries = n]
<1>1. CASE cb' = [cb EXCEPT ![c].pc = "get", ![c].getValue = None, ![c].delResult = 0,
                            ![c].retries = @ + 1]
  <2>1. n \in Nat /\ cb[c] \in Callback
    BY DEF TypeOK, Callback
  <2>2. cb' = [cb EXCEPT ![c] = x]
    BY <1>1 DEF TypeOK
  <2> HIDE DEF n
  <2>3. x \in Callback
    BY <2>1 DEF Callback, PC
  <2>4. cb'[c] = x
    BY <2>2, <2>3, CallbackUpdate
  <2>5. cb'[c].pc = "get" /\ cb'[c].getValue = None /\ cb'[c].state = cb[c].state
    BY <2>1, <2>4 DEF Callback
  <2> QED BY <2>2, <2>3, <2>5, CallbackUpdate DEF LoseReplies
<1>2. CASE Goto(c, "invalid")
  BY <1>2, GotoCallback DEF LoseReplies, PC
<1> QED BY <1>1, <1>2 DEF LoseReplies

-----------------------------------------------------------------------------
(* The inductive invariant                                                 *)

LEMMA ProtocolStart == Init => ProtocolInv
BY NatAssumption, NoneAssumption
   DEF Init, ProtocolInv, TypeOK, CallbackInv, StateInv, TakenOnce, Took, Taken, Callback, PC,
       Phase, InRedis

\* The steps of GET /auth/github: no callback holds a state that is not offered yet.
LEMMA LoginInv ==
    ASSUME ProtocolInv, NEW s \in States, Login(s)
    PROVE  ProtocolInv'
<1> USE NoneAssumption
<1>1. /\ phase[s] \in {"unused", "setex", "stored"} /\ cb' = cb
      /\ now' = now /\ disturbed' = disturbed
      /\ \A t \in States \ {s} : phase'[t] = phase[t] /\ issuedAt'[t] = issuedAt[t]
                                 /\ store'[t] = store[t]
  BY DEF Login, GenerateState, SetState, OfferState, LoseSetReply, ProtocolInv, TypeOK
<1>2. TypeOK'
  <2>1. CASE GenerateState(s)
    BY <2>1 DEF GenerateState, ProtocolInv, TypeOK, Phase
  <2>2. CASE SetState(s)
    <3>1. issuedAt[s] \in Nat /\ now + Ttl \in Nat
      BY <2>2, NatAssumption DEF SetState, ProtocolInv, StateInv, TypeOK
    <3>2. [timestamp |-> issuedAt[s], until |-> now + Ttl] \in OAuthStateData
      BY <3>1 DEF OAuthStateData
    <3> QED BY <2>2, <3>2 DEF SetState, ProtocolInv, TypeOK, Phase
  <2>3. CASE OfferState(s) \/ LoseSetReply(s)
    BY <2>3 DEF OfferState, LoseSetReply, ProtocolInv, TypeOK, Phase
  <2> QED BY <2>1, <2>2, <2>3 DEF Login
<1>3. ASSUME NEW c \in Callbacks
      PROVE  CallbackInv(c)' /\ (Took(c)' <=> Took(c))
  <2>1. cb[c].state # s
    BY <1>1 DEF ProtocolInv, CallbackInv
  <2>2. Took(c)' <=> Took(c)
    BY <1>1 DEF Took, Taken
  <2>3. Took(c) => cb[c].state \in States
    BY DEF ProtocolInv, CallbackInv, Took, Taken, InRedis
  <2> QED BY <1>1, <2>1, <2>2, <2>3 DEF ProtocolInv, CallbackInv
<1>4. StateInv(s)'
  BY DEF Login, GenerateState, SetState, OfferState, LoseSetReply, ProtocolInv, TypeOK,
         StateInv, OAuthStateData
<1>5. \A t \in States \ {s} : StateInv(t)'
  BY <1>1 DEF ProtocolInv, StateInv
<1>6. TakenOnce'
  BY <1>1, <1>3 DEF ProtocolInv, TakenOnce
<1> QED BY <1>2, <1>3, <1>4, <1>5, <1>6 DEF ProtocolInv

\* A callback that comes in, sends, or resumes only keeps what it took.
LEMMA CallbackStepInv ==
    ASSUME ProtocolInv, NEW c \in Callbacks,
           Present(c) \/ PresentRefused(c) \/ Validate(c) \/ LoseReplies(c)
    PROVE  ProtocolInv'
<1> USE NoneAssumption
<1>0. TypeOK /\ CallbackInv(c) /\ TakenOnce
  BY DEF ProtocolInv
<1>u. /\ now' = now /\ issuedAt' = issuedAt /\ phase' = phase
      /\ (store' = store \/ DelState(c))
      /\ disturbed' \in SUBSET States
  BY <1>0 DEF Present, PresentRefused, Validate, GetState, DelState, Resume, LoseReplies,
            TypeOK, CallbackInv
\* It is enough to look at the callback that steps.
<1>g. ASSUME cb' \in [Callbacks -> Callback],
             \A d \in Callbacks \ {c} : cb'[d] = cb[d],
             store' = store,
             CallbackInv(c)', Took(c)' => Took(c) /\ cb'[c].state = cb[c].state
      PROVE  ProtocolInv'
  <2>1. TypeOK'
    BY <1>0, <1>u, <1>g DEF TypeOK
  <2>2. \A d \in Callbacks \ {c} : CallbackInv(d)' /\ (Took(d)' <=> Took(d))
    BY <1>u, <1>g DEF ProtocolInv, CallbackInv, Took, Taken
  <2>3. \A s \in States : StateInv(s)'
    BY <1>u, <1>g DEF ProtocolInv, StateInv
  <2>4. TakenOnce'
    BY <1>0, <1>g, <2>2 DEF TakenOnce
  <2> QED BY <1>g, <2>1, <2>2, <2>3, <2>4 DEF ProtocolInv
<1>1. CASE Present(c)
  <2>1. ~Took(c)'
    BY <1>0, <1>1, PresentCallback DEF Took, Taken
  <2>2. cb[c].getValue = None
    BY <1>1, <1>0 DEF Present, CallbackInv
  <2>3. CallbackInv(c)'
    BY <1>0, <1>1, <1>u, <2>1, <2>2, PresentCallback DEF CallbackInv, Present
  <2> QED BY <1>0, <1>1, <1>g, <2>1, <2>3, PresentCallback DEF Present
<1>2. CASE PresentRefused(c)
  <2>1. Goto(c, "refused") /\ "refused" \in PC /\ cb[c].pc = "idle" /\ store' = store
    BY <1>2 DEF PresentRefused, PC
  <2>2. ~Took(c)'
    BY <1>0, <2>1, GotoCallback DEF Took, Taken
  <2>3. CallbackInv(c)'
    BY <1>0, <1>u, <2>1, <2>2, GotoCallback DEF CallbackInv, InRedis
  <2> QED BY <1>0, <1>g, <2>1, <2>2, <2>3, GotoCallback
<1>3. CASE GetState(c)
  <2>1. cb[c].state \in States
    BY <1>0, <1>3 DEF CallbackInv, GetState, InRedis
  <2>2. ~Took(c)'
    BY <1>0, <1>3, <2>1, GetCallback DEF Took, Taken
  <2>3. Live(cb[c].state) => store[cb[c].state].timestamp = issuedAt[cb[c].state]
    BY <2>1 DEF Live, ProtocolInv, StateInv
  <2>4. CallbackInv(c)'
    BY <1>0, <1>3, <1>u, <2>1, <2>2, <2>3, GetCallback DEF CallbackInv
  <2> QED BY <1>0, <1>3, <1>g, <2>1, <2>2, <2>4, GetCallback DEF GetState
<1>4. CASE DelState(c)
  <2> DEFINE s == cb[c].state
  <2>1. s \in States
    BY <1>0, <1>4 DEF CallbackInv, DelState, InRedis
  <2>2. /\ cb' \in [Callbacks -> Callback]
        /\ cb[c].pc = "del" /\ cb'[c].pc = "reply"
        /\ cb'[c].state = s /\ cb'[c].getValue = cb[c].getValue
        /\ cb'[c].delResult = 1 => store[s] # None
        /\ \A d \in Callbacks \ {c} : cb'[d] = cb[d]
        /\ store' \in [States -> OAuthStateData \cup {None}]
        /\ store'[s] = None
        /\ \A t \in States \ {s} : store'[t] = store[t]
    BY <1>0, <1>4, <2>1, DelCallback
  <2>3. TypeOK'
    BY <1>0, <1>u, <2>2 DEF TypeOK
  <2>4. CallbackInv(c)'
    BY <1>0, <1>u, <2>1, <2>2 DEF CallbackInv
  <2>5. \A d \in Callbacks \ {c} : CallbackInv(d)' /\ (Took(d)' <=> Took(d))
    BY <1>u, <2>2 DEF ProtocolInv, CallbackInv, Took, Taken, InRedis
  <2>6. \A t \in States : StateInv(t)'
    BY <1>u, <2>1, <2>2 DEF ProtocolInv, StateInv
  <2>7. ASSUME Took(c)', NEW d \in Callbacks \ {c}, Took(d)'
        PROVE  cb'[d].state # s
    <3>1. store[s] # None
      BY <2>2, <2>7 DEF Took, Taken
    <3>2. Took(d) /\ CallbackInv(d)
      BY <2>5, <2>7 DEF ProtocolInv
    <3> QED BY <2>2, <3>1, <3>2 DEF CallbackInv
  <2>8. TakenOnce'
    BY <1>0, <2>2, <2>5, <2>7 DEF TakenOnce
  <2> QED BY <2>3, <2>4, <2>5, <2>6, <2>8 DEF ProtocolInv
<1>5. CASE Resume(c)
  <2> DEFINE pc == IF Accepted(c) THEN "valid" ELSE "invalid"
  <2>1. /\ Goto(c, pc) /\ pc \in {"valid", "invalid"} /\ pc \in PC /\ store' = store
        /\ cb[c].pc = "reply" /\ (pc = "valid" => Accepted(c))
    BY <1>5 DEF Resume, PC
  <2> HIDE DEF pc
  <2>2. Took(c)' => Took(c)
    BY <1>0, <2>1, GotoCallback DEF Took, Taken, Accepted
  <2>3. CallbackInv(c)'
    BY <1>0, <1>u, <2>1, <2>2, GotoCallback DEF CallbackInv, InRedis
  <2> QED BY <1>0, <1>g, <2>1, <2>2, <2>3, GotoCallback
<1>6. CASE LoseReplies(c)
  <2>1. ~Took(c)'
    BY <1>0, <1>6, LoseCallback DEF Took, Taken
  <2>2. CallbackInv(c)'
    BY <1>0, <1>6, <1>u, <2>1, LoseCallback DEF CallbackInv
  <2> QED BY <1>0, <1>6, <1>g, <2>1, <2>2, LoseCallback DEF LoseReplies
<1> QED BY <1>1, <1>2, <1>3, <1>4, <1>5, <1>6 DEF Validate

LEMMA EnvironmentInv ==
    ASSUME ProtocolInv, LoseEntries \/ Tick \/ UNCHANGED vars
    PROVE  ProtocolInv'
<1> USE NoneAssumption
<1>1. /\ cb' = cb /\ phase' = phase /\ issuedAt' = issuedAt
      /\ \A s \in States : store'[s] \in {store[s], None}
  BY DEF LoseEntries, Tick, vars, ProtocolInv, TypeOK
<1>2. TypeOK'
  BY <1>1 DEF LoseEntries, Tick, vars, ProtocolInv, TypeOK
<1>3. \A c \in Callbacks : CallbackInv(c)' /\ (Took(c)' <=> Took(c))
  BY <1>1 DEF ProtocolInv, CallbackInv, Took, Taken, InRedis
<1>4. \A s \in States : StateInv(s)'
  BY <1>1 DEF ProtocolInv, StateInv
<1>5. TakenOnce'
  BY <1>1, <1>3 DEF ProtocolInv, TakenOnce
<1> QED BY <1>2, <1>3, <1>4, <1>5 DEF ProtocolInv

LEMMA ProtocolStep == ProtocolInv /\ [Next]_vars => ProtocolInv'
BY LoginInv, CallbackStepInv, EnvironmentInv DEF Next

-----------------------------------------------------------------------------
(* Someone wins                                                            *)

LEMMA WinnerStart == Init => WinnerInv
BY NoneAssumption DEF Init, WinnerInv, InRedis

\* What stays fresh has been fresh.
LEMMA FreshBefore ==
    ASSUME TypeOK, NEW s \in States, issuedAt[s] \in Nat, issuedAt'[s] = issuedAt[s],
           now' \in Nat, now <= now', disturbed \subseteq disturbed', Fresh(s)'
    PROVE  Fresh(s)
<1>1. now \in Nat /\ Ttl \in Nat
  BY NatAssumption DEF TypeOK
<1> QED BY <1>1 DEF Fresh

\* While its time is not over, the entry of a state is live.
LEMMA FreshLives ==
    ASSUME TypeOK, WinnerInv, NEW s \in States, StateInv(s), store[s] # None, Fresh(s),
           phase[s] # "unused"
    PROVE  Live(s) /\ store[s].timestamp = issuedAt[s] /\ issuedAt[s] # None
<1>1. /\ now \in Nat /\ Ttl \in Nat /\ issuedAt[s] \in Nat /\ store[s].until \in Nat
      /\ issuedAt[s] + Ttl <= store[s].until
  BY NatAssumption DEF TypeOK, OAuthStateData, StateInv, WinnerInv
<1> QED BY <1>1, NoneAssumption DEF Fresh, Live, StateInv

Won(s) == \E c \in Callbacks : cb[c].state = s /\ Took(c)

Untaken(s) == store[s] # None /\ \A c \in Callbacks : cb[c].state = s => Seen(c)

LEMMA WinnerParts ==
    WinnerInv <=>
        /\ \A c \in Callbacks : cb[c].pc \in {"idle", "refused"} => cb[c].state = None
        /\ \A s \in States :
              /\ issuedAt[s] # None => issuedAt[s] <= now
              /\ store[s] # None => issuedAt[s] + Ttl <= store[s].until
              /\ phase[s] \in {"stored", "offered"} /\ Fresh(s) => Untaken(s) \/ Won(s)
BY DEF WinnerInv, Untaken, Won

LEMMA LoginWinner ==
    ASSUME ProtocolInv, WinnerInv, NEW s \in States, Login(s)
    PROVE  WinnerInv'
<1>1. /\ phase[s] \in {"unused", "setex", "stored"} /\ cb' = cb
      /\ now' = now /\ now \in Nat /\ disturbed' = disturbed /\ Ttl \in Nat
      /\ \A t \in States \ {s} : phase'[t] = phase[t] /\ issuedAt'[t] = issuedAt[t]
                                 /\ store'[t] = store[t]
  BY NatAssumption
     DEF Login, GenerateState, SetState, OfferState, LoseSetReply, ProtocolInv, TypeOK
<1>2. \A c \in Callbacks : cb[c].state # s
  BY <1>1 DEF ProtocolInv, CallbackInv
<1>3. CASE GenerateState(s)
  <2>1. /\ issuedAt'[s] = now /\ phase'[s] = "setex" /\ store'[s] = None
    BY <1>3 DEF GenerateState, ProtocolInv, TypeOK, StateInv
  <2> QED BY <1>1, <2>1 DEF WinnerInv, Fresh, Seen, Took, Taken
<1>4. CASE SetState(s)
  <2>1. /\ issuedAt'[s] = issuedAt[s] /\ issuedAt[s] \in Nat /\ phase'[s] = "stored"
        /\ store'[s] = [timestamp |-> issuedAt[s], until |-> now + Ttl]
    BY <1>4 DEF SetState, ProtocolInv, TypeOK, StateInv
  <2>2. issuedAt[s] <= now
    BY <2>1, NoneAssumption DEF WinnerInv
  <2>3. store'[s] # None /\ issuedAt[s] + Ttl <= store'[s].until
    <3>1. store'[s] \in OAuthStateData /\ store'[s].until = now + Ttl
      BY <1>1, <2>1 DEF OAuthStateData
    <3>2. issuedAt[s] + Ttl <= now + Ttl
      BY <1>1, <2>1, <2>2
    <3>3. store'[s] # None
      BY <3>1, NoneAssumption DEF OAuthStateData
    <3> QED BY <3>1, <3>2, <3>3
  <2>4. Untaken(s)'
    BY <1>1, <1>2, <2>3 DEF Untaken
  <2> QED BY <1>1, <2>1, <2>2, <2>3, <2>4 DEF WinnerInv, Untaken, Fresh, Seen, Took, Taken
<1>5. CASE OfferState(s) \/ LoseSetReply(s)
  <2>1. /\ issuedAt' = issuedAt /\ store' = store
        /\ phase'[s] \in {"stored", "offered"} => phase[s] = "stored"
    BY <1>5 DEF OfferState, LoseSetReply, ProtocolInv, TypeOK
  <2> QED BY <1>1, <2>1 DEF WinnerInv, Fresh, Seen, Took, Taken
<1> QED BY <1>3, <1>4, <1>5 DEF Login

\* What the steps of one callback come to: it stays on its way to the entry, or has taken
\* it, or its step is of no account.
LEMMA OneCallbackWinner ==
    ASSUME ProtocolInv, WinnerInv, NEW c \in Callbacks,
           UNCHANGED <<now, issuedAt, phase>>, disturbed \subseteq disturbed',
           CallbackInv(c)',
           \A d \in Callbacks \ {c} : cb'[d] = cb[d],
           cb'[c].pc \in {"idle", "refused"} => cb'[c].state = None,
           cb[c].state \in States => cb'[c].state = cb[c].state,
           \A s \in States : store'[s] # None => store'[s] = store[s],
           \A s \in States : cb'[c].state = s /\ phase[s] = "offered" /\ Fresh(s)' =>
              /\ Untaken(s) => (store'[s] # None /\ Seen(c)') \/ Took(c)'
              /\ cb[c].state = s /\ Took(c) => Took(c)',
           \A s \in States : cb'[c].state # s => store'[s] = store[s]
    PROVE  WinnerInv'
<1>1. TypeOK /\ \A d \in Callbacks : CallbackInv(d)
  BY DEF ProtocolInv
<1>2. \A d \in Callbacks : cb'[d].pc \in {"idle", "refused"} => cb'[d].state = None
  BY DEF WinnerInv
<1>3. ASSUME NEW s \in States, phase[s] \in {"stored", "offered"}, Fresh(s)'
      PROVE  Untaken(s)' \/ Won(s)'
  <2>1. Fresh(s)
    BY <1>3 DEF Fresh
  <2>2. CASE cb'[c].state # s
    <3>1. Untaken(s) => Untaken(s)'
      BY <2>2 DEF Untaken, Seen
    <3>2. ASSUME NEW d \in Callbacks, cb[d].state = s, Took(d) PROVE Won(s)'
      <4>1. d # c
        BY <2>2, <3>2
      <4> QED BY <3>2, <4>1 DEF Won, Took, Taken
    <3> QED BY <1>3, <2>1, <3>1, <3>2, WinnerParts DEF Won
  <2>3. CASE cb'[c].state = s /\ phase[s] = "offered"
    <3>1. /\ Untaken(s) => (store'[s] # None /\ Seen(c)') \/ Took(c)'
          /\ cb[c].state = s /\ Took(c) => Took(c)'
      BY <1>3, <2>3
    <3>2. CASE Untaken(s)
      BY <2>3, <3>1, <3>2 DEF Untaken, Won, Seen
    <3>3. ASSUME NEW d \in Callbacks, cb[d].state = s, Took(d) PROVE Won(s)'
      <4>1. CASE d = c
        BY <2>3, <3>1, <3>3, <4>1 DEF Won
      <4>2. CASE d # c
        BY <3>3, <4>2 DEF Won, Took, Taken
      <4> QED BY <4>1, <4>2
    <3> QED BY <1>3, <2>1, <3>2, <3>3, WinnerParts DEF Won
  <2>4. cb'[c].state = s => phase[s] = "offered"
    BY DEF CallbackInv
  <2> QED BY <1>3, <2>2, <2>3, <2>4
<1> QED BY <1>2, <1>3 DEF WinnerInv, Untaken, Won

LEMMA CallbackWinner ==
    ASSUME ProtocolInv, ProtocolInv', WinnerInv, NEW c \in Callbacks,
           Present(c) \/ PresentRefused(c) \/ Validate(c) \/ LoseReplies(c)
    PROVE  WinnerInv'
<1>0. /\ TypeOK /\ CallbackInv(c) /\ CallbackInv(c)' /\ \A s \in States : StateInv(s)
      /\ UNCHANGED <<now, issuedAt, phase>> /\ disturbed \subseteq disturbed'
  BY DEF ProtocolInv, Present, PresentRefused, Validate, GetState, DelState, Resume, LoseReplies
<1>1. CASE Present(c)
  <2>1. store' = store /\ cb[c].state = None /\ ~Took(c) /\ cb'[c].pc = "get"
    BY <1>0, <1>1, PresentCallback DEF Present, WinnerInv, Took, Taken
  <2> QED BY <1>0, <1>1, <2>1, PresentCallback, OneCallbackWinner, NoneAssumption
          DEF Seen, Untaken
<1>2. CASE PresentRefused(c)
  <2>1. /\ Goto(c, "refused") /\ "refused" \in PC /\ cb[c].pc = "idle" /\ store' = store
        /\ cb[c].state = None
    BY <1>2 DEF PresentRefused, PC, WinnerInv
  <2> QED BY <1>0, <2>1, GotoCallback, OneCallbackWinner, NoneAssumption
<1>3. CASE GetState(c)
  <2>1. cb[c].state \in States /\ store' = store /\ ~Took(c)
    BY <1>0, <1>3 DEF CallbackInv, GetState, InRedis, Took, Taken
  <2>2. ASSUME NEW s \in States, cb'[c].state = s, phase[s] = "offered", Fresh(s)', Untaken(s)
        PROVE  store'[s] # None /\ Seen(c)'
    <3>1. Live(s) /\ store[s].timestamp # None
      BY <1>0, <2>2, FreshLives DEF Fresh, Untaken
    <3> QED BY <1>0, <1>3, <2>1, <2>2, <3>1, GetCallback DEF Seen, Untaken
  <2> QED BY <1>0, <1>3, <2>1, <2>2, GetCallback, OneCallbackWinner
<1>4. CASE DelState(c)
  <2>1. cb[c].state \in States /\ ~Took(c)
    BY <1>0, <1>4 DEF CallbackInv, DelState, InRedis, Took, Taken
  <2>2. ASSUME NEW s \in States, cb'[c].state = s, phase[s] = "offered", Fresh(s)', Untaken(s)
        PROVE  Took(c)'
    <3>1. cb[c].state = s /\ cb[c].pc = "del" /\ cb[c].getValue # None
      BY <1>0, <1>4, <2>1, <2>2, DelCallback DEF Untaken, Seen
    <3>2. Live(s)
      BY <1>0, <2>2, FreshLives DEF Fresh, Untaken
    <3> QED BY <1>0, <1>4, <2>1, <3>1, <3>2, DelCallback DEF Took, Taken
  <2> QED BY <1>0, <1>4, <2>1, <2>2, DelCallback, OneCallbackWinner
<1>5. CASE Resume(c)
  <2> DEFINE pc == IF Accepted(c) THEN "valid" ELSE "invalid"
  <2>1. /\ Goto(c, pc) /\ pc \in PC /\ pc \notin {"idle", "refused"} /\ store' = store
        /\ cb[c].pc = "reply"
    BY <1>5 DEF Resume, PC
  <2>2. ASSUME NEW s \in States, cb[c].state = s, Fresh(s)', Took(c) PROVE pc = "valid"
    <3>1. cb[c].getValue = issuedAt[s] /\ cb[c].getValue # None /\ cb[c].delResult = 1
      BY <1>0, <2>1, <2>2 DEF Took, Taken, CallbackInv
    <3>2. now \in Nat /\ issuedAt[s] \in Nat /\ Ttl \in Nat /\ now < issuedAt[s] + Ttl
      BY <1>0, <2>2, <3>1, NatAssumption DEF Fresh, TypeOK
    <3>3. now - issuedAt[s] <= Ttl
      BY <3>2
    <3> QED BY <3>1, <3>3 DEF Accepted
  <2> HIDE DEF pc
  <2>3. ~Seen(c)
    BY <2>1 DEF Seen
  <2> QED BY <1>0, <2>1, <2>2, <2>3, GotoCallback, OneCallbackWinner DEF Untaken, Took
<1>6. CASE LoseReplies(c)
  <2>1. store' = store /\ disturbed' = disturbed \cup {cb[c].state}
    BY <1>6 DEF LoseReplies
  <2>2. \A s \in States : cb'[c].state = s => ~Fresh(s)'
    BY <1>0, <1>6, <2>1, LoseCallback DEF Fresh
  <2> QED BY <1>0, <1>6, <2>1, <2>2, LoseCallback, OneCallbackWinner
<1> QED BY <1>1, <1>2, <1>3, <1>4, <1>5, <1>6 DEF Validate

LEMMA EnvironmentWinner ==
    ASSUME ProtocolInv, WinnerInv, LoseEntries \/ Tick \/ UNCHANGED vars
    PROVE  WinnerInv'
<1>1. /\ cb' = cb /\ phase' = phase /\ issuedAt' = issuedAt
      /\ \A s \in States : store'[s] = store[s] \/ (store'[s] = None /\ s \in disturbed')
      /\ now \in Nat /\ now' \in Nat /\ now <= now' /\ disturbed \subseteq disturbed'
      /\ TypeOK
  BY DEF LoseEntries, Tick, vars, ProtocolInv, TypeOK
<1>2. \A c \in Callbacks : (Took(c)' <=> Took(c)) /\ (Seen(c)' <=> Seen(c))
  BY <1>1 DEF Took, Taken, Seen
<1>3. ASSUME NEW s \in States, phase[s] \in {"stored", "offered"}, Fresh(s)'
      PROVE  Untaken(s)' \/ Won(s)'
  <2>1. issuedAt[s] \in Nat
    BY <1>3 DEF ProtocolInv, StateInv
  <2>2. Fresh(s)
    BY <1>1, <1>3, <2>1, FreshBefore
  <2>3. store'[s] = store[s]
    BY <1>1, <1>3 DEF Fresh
  <2>4. Untaken(s) \/ Won(s)
    BY <1>3, <2>2, WinnerParts
  <2> QED BY <1>1, <1>2, <2>3, <2>4 DEF Untaken, Won
<1>4. ASSUME NEW s \in States, issuedAt[s] # None PROVE issuedAt[s] <= now'
  <2>1. issuedAt[s] \in Nat /\ issuedAt[s] <= now
    BY <1>1, <1>4 DEF WinnerInv, TypeOK
  <2> QED BY <1>1, <2>1
<1>5. \A s \in States : store'[s] # None => issuedAt'[s] + Ttl <= store'[s].until
  BY <1>1 DEF WinnerInv
<1> QED BY <1>1, <1>3, <1>4, <1>5 DEF WinnerInv, Untaken, Won

LEMMA InitInv == Init => IndInv
BY ProtocolStart, WinnerStart DEF IndInv

LEMMA NextInv == IndInv /\ [Next]_vars => IndInv'
<1> SUFFICES ASSUME ProtocolInv, WinnerInv, [Next]_vars PROVE IndInv'
  BY DEF IndInv
<1>1. ProtocolInv'
  BY ProtocolStep
<1>2. WinnerInv'
  BY <1>1, LoginWinner, CallbackWinner, EnvironmentWinner DEF Next
<1> QED BY <1>1, <1>2 DEF IndInv

\* Every reachable state satisfies the invariant of the protocol: an entry taken out of
\* Redis by one callback is held by no other callback and is no longer in Redis.
THEOREM StateProtocolInvariant == Spec => []IndInv
BY InitInv, NextInv, PTL DEF Spec

\* One callback at most is validated per OAuth state, for any number of callbacks and
\* instances (validateState).
THEOREM OneCallbackPerState == Spec => []ValidatedOnce
<1>1. IndInv => ValidatedOnce
  BY DEF IndInv, ProtocolInv, TakenOnce, Took, ValidatedOnce
<1> QED BY <1>1, StateProtocolInvariant, PTL

\* Concurrent callbacks do not reject each other all: of those that presented a state with
\* which nothing went wrong, within its time, one was validated.
THEOREM OneOfThemWins == Spec => []SomeoneWins
<1>1. ASSUME IndInv, NEW s \in States, NEW c \in Callbacks, cb[c].state = s,
             s \notin disturbed, now < issuedAt[s] + Ttl,
             \A d \in Callbacks : cb[d].state = s => cb[d].pc \notin InRedis
      PROVE  \E d \in Callbacks : cb[d].state = s /\ cb[d].pc = "valid"
  <2>1. phase[s] = "offered"
    BY <1>1 DEF IndInv, ProtocolInv, CallbackInv
  <2>2. Untaken(s) \/ Won(s)
    BY <1>1, <2>1, WinnerParts DEF IndInv, Fresh
  <2> QED BY <1>1, <2>2 DEF Untaken, Won, Seen, Took, Taken, InRedis
<1>2. IndInv => SomeoneWins
  BY <1>1 DEF SomeoneWins
<1> QED BY <1>2, StateProtocolInvariant, PTL

-----------------------------------------------------------------------------
(* The refinement                                                          *)

LEMMA InitRefines == Init => Abstract!Init
BY DEF Init, Abstract!Init, Outstanding, Redeemed, Taken

AbstractVars == <<now, issuedAt, Outstanding, Redeemed>>

\* A step that changes neither the clock nor an issue time nor the redeemed states, and
\* makes no state outstanding, is a step of the abstract specification.
LEMMA LosesOnly ==
    ASSUME now' = now, issuedAt' = issuedAt, Redeemed' = Redeemed,
           Outstanding' \subseteq Outstanding
    PROVE  [Abstract!Next]_AbstractVars
BY DEF Abstract!Next, Abstract!Lose

LEMMA LoginRefines ==
    ASSUME ProtocolInv, NEW s \in States, Login(s)
    PROVE  [Abstract!Next]_AbstractVars
<1>1. cb' = cb /\ now' = now
  BY DEF Login, GenerateState, SetState, OfferState, LoseSetReply
<1>2. Redeemed' = Redeemed /\ \A c \in Callbacks : Taken(c)' <=> Taken(c)
  BY <1>1 DEF Redeemed, Taken
<1>3. CASE GenerateState(s)
  <2>1. issuedAt[s] = None /\ issuedAt' = [issuedAt EXCEPT ![s] = now]
    BY <1>3 DEF GenerateState, ProtocolInv, StateInv
  <2>2. Outstanding' = Outstanding \cup {s}
    BY <1>1, <1>2, <1>3 DEF GenerateState, Outstanding, ProtocolInv, TypeOK
  <2> QED BY <1>1, <1>2, <2>1, <2>2 DEF Abstract!Next, Abstract!Issue
<1>4. CASE SetState(s) \/ OfferState(s) \/ LoseSetReply(s)
  <2>1. Outstanding' \subseteq Outstanding
    BY <1>1, <1>2, <1>4
       DEF SetState, OfferState, LoseSetReply, Outstanding, ProtocolInv, TypeOK
  <2> QED BY <1>1, <1>2, <1>4, <2>1, LosesOnly DEF SetState, OfferState, LoseSetReply
<1> QED BY <1>3, <1>4 DEF Login

LEMMA CallbackStepRefines ==
    ASSUME ProtocolInv, NEW c \in Callbacks,
           Present(c) \/ PresentRefused(c) \/ Validate(c) \/ LoseReplies(c)
    PROVE  [Abstract!Next]_AbstractVars
<1> USE NoneAssumption
<1>0. TypeOK /\ CallbackInv(c) /\ TakenOnce
  BY DEF ProtocolInv
<1>u. now' = now /\ issuedAt' = issuedAt /\ phase' = phase
  BY DEF Present, PresentRefused, Validate, GetState, DelState, Resume, LoseReplies
\* A callback that takes nothing and validates nothing only loses states.
<1>g. ASSUME \A d \in Callbacks \ {c} : cb'[d] = cb[d],
             store' = store, cb[c].pc # "valid", cb'[c].pc # "valid",
             Taken(c)' => FALSE
      PROVE  [Abstract!Next]_AbstractVars
  <2>1. Redeemed' = Redeemed
    BY <1>g DEF Redeemed
  <2>2. Outstanding' \subseteq Outstanding
    BY <1>u, <1>g DEF Outstanding, Taken
  <2> QED BY <1>u, <2>1, <2>2, LosesOnly
<1>1. CASE Present(c)
  BY <1>0, <1>1, <1>g, PresentCallback DEF Present, Taken
<1>2. CASE PresentRefused(c)
  BY <1>0, <1>2, <1>g, GotoCallback DEF PresentRefused, PC, Taken
<1>3. CASE GetState(c)
  <2>1. cb[c].state \in States
    BY <1>0, <1>3 DEF CallbackInv, GetState, InRedis
  <2> QED BY <1>0, <1>3, <1>g, <2>1, GetCallback DEF GetState, Taken
<1>4. CASE DelState(c)
  <2> DEFINE s == cb[c].state
  <2>1. s \in States
    BY <1>0, <1>4 DEF CallbackInv, DelState, InRedis
  <2>2. /\ cb[c].pc = "del" /\ cb'[c].pc = "reply" /\ cb'[c].state = s
        /\ cb'[c].delResult = 1 => store[s] # None
        /\ \A d \in Callbacks \ {c} : cb'[d] = cb[d]
        /\ store'[s] = None
        /\ \A t \in States \ {s} : store'[t] = store[t]
    BY <1>0, <1>4, <2>1, DelCallback
  <2>3. Redeemed' = Redeemed
    BY <2>2 DEF Redeemed
  <2>4. Outstanding' \subseteq Outstanding
    BY <1>u, <2>1, <2>2 DEF Outstanding, Taken
  <2> QED BY <1>u, <2>3, <2>4, LosesOnly
<1>5. CASE Resume(c) /\ ~Accepted(c)
  <2>1. Goto(c, "invalid") /\ "invalid" \in PC /\ cb[c].pc = "reply" /\ store' = store
    BY <1>5 DEF Resume, PC
  <2> QED BY <1>0, <1>g, <2>1, GotoCallback DEF Taken
<1>6. CASE Resume(c) /\ Accepted(c)
  <2> DEFINE s == cb[c].state
  <2>1. Goto(c, "valid") /\ "valid" \in PC /\ cb[c].pc = "reply" /\ store' = store
    BY <1>6 DEF Resume, PC
  <2>2. s \in States /\ Taken(c) /\ Took(c)
    BY <1>0, <1>6, <2>1 DEF CallbackInv, InRedis, Accepted, Taken, Took
  <2>3. phase[s] = "offered" /\ store[s] = None /\ cb[c].getValue = issuedAt[s]
    BY <1>0, <1>6, <2>2 DEF CallbackInv, Accepted
  <2>4. \A d \in Callbacks \ {c} : ~(Took(d) /\ cb[d].state = s)
    BY <1>0, <2>2 DEF TakenOnce
  <2>5. /\ cb'[c].pc = "valid" /\ cb'[c].state = s
        /\ \A d \in Callbacks \ {c} : cb'[d] = cb[d]
    BY <1>0, <2>1, GotoCallback
  <2>6. s \in Outstanding \ Redeemed
    BY <2>1, <2>2, <2>4 DEF Outstanding, Redeemed, Took
  <2>7. now <= issuedAt[s] + Ttl
    BY <1>0, <1>6, <2>2, <2>3, NatAssumption DEF Accepted, TypeOK
  <2>8. Outstanding' = Outstanding \ {s}
    BY <1>u, <2>1, <2>3, <2>4, <2>5 DEF Outstanding, Took, Taken
  <2>9. Redeemed' = Redeemed \cup {s}
    BY <2>1, <2>2, <2>5 DEF Redeemed
  <2> QED BY <1>u, <2>2, <2>6, <2>7, <2>8, <2>9 DEF Abstract!Next, Abstract!Redeem
<1>7. CASE LoseReplies(c)
  BY <1>0, <1>7, <1>g, LoseCallback DEF LoseReplies, Taken, InRedis
<1> QED BY <1>1, <1>2, <1>3, <1>4, <1>5, <1>6, <1>7 DEF Validate

LEMMA EnvironmentRefines ==
    ASSUME ProtocolInv, LoseEntries \/ Tick \/ UNCHANGED vars
    PROVE  [Abstract!Next]_AbstractVars
<1>1. /\ cb' = cb /\ phase' = phase /\ issuedAt' = issuedAt
      /\ \A s \in States : store'[s] \in {store[s], None}
  BY DEF LoseEntries, Tick, vars, ProtocolInv, TypeOK
<1>2. Redeemed' = Redeemed /\ Outstanding' \subseteq Outstanding
  BY <1>1 DEF Redeemed, Outstanding, Taken
<1>3. CASE LoseEntries \/ UNCHANGED vars
  BY <1>1, <1>2, <1>3, LosesOnly DEF LoseEntries, vars
<1>4. CASE Tick
  <2>1. Outstanding' = Outstanding
    BY <1>4 DEF Tick, Outstanding, Taken
  <2> QED BY <1>2, <1>4, <2>1 DEF Tick, Abstract!Next, Abstract!Advance
<1> QED BY <1>3, <1>4

\* The exchange with Redis implements one-time states with a time limit: each step is an
\* issue, a redemption or a loss of the abstract specification, the passing of time, or
\* changes nothing there.
THEOREM StateProtocolRefines == Spec => ImplementsOneTimeState
<1>1. IndInv /\ [Next]_vars => [Abstract!Next]_AbstractVars
  BY LoginRefines, CallbackStepRefines, EnvironmentRefines DEF Next, IndInv
<1> QED BY <1>1, InitRefines, StateProtocolInvariant, PTL
        DEF Spec, ImplementsOneTimeState, Abstract!Spec, AbstractVars

-----------------------------------------------------------------------------
(* Progress                                                                *)

\* No callback is sent again more often than allowed.
RetriesBounded == \A c \in Callbacks : cb[c].retries \in 0 .. MaxRetriesPerRequest

LEMMA InRedisSteps ==
    ASSUME TypeOK, RetriesBounded, NEW c \in Callbacks,
           GetState(c) \/ DelState(c) \/ Resume(c) \/ LoseReplies(c)
    PROVE  /\ cb[c].pc \in InRedis
           /\ \A d \in Callbacks \ {c} : cb'[d] = cb[d]
           /\ \/ /\ cb'[c].pc \in {"valid", "invalid"} /\ cb'[c].retries = cb[c].retries
              \/ /\ cb[c].pc = "get" /\ cb'[c].pc = "del" /\ cb'[c].retries = cb[c].retries
              \/ /\ cb[c].pc = "del" /\ cb'[c].pc = "reply" /\ cb'[c].retries = cb[c].retries
              \/ /\ cb[c].retries < MaxRetriesPerRequest
                 /\ cb'[c].pc = "get" /\ cb'[c].retries = cb[c].retries + 1
<1>1. cb \in [Callbacks -> Callback] /\ cb[c] \in Callback
  BY DEF TypeOK
<1>2. CASE GetState(c)
  BY <1>1, <1>2 DEF GetState, Callback, InRedis
<1>3. CASE DelState(c)
  BY <1>1, <1>3 DEF DelState, Callback, InRedis
<1>4. CASE Resume(c)
  <2>1. PICK pc \in {"valid", "invalid"} : Goto(c, pc)
    BY <1>4 DEF Resume
  <2> QED BY <1>4, <2>1, GotoCallback DEF Resume, InRedis, PC
<1>5. CASE LoseReplies(c)
  <2>1. CASE Goto(c, "invalid")
    BY <1>5, <2>1, GotoCallback DEF LoseReplies, PC
  <2>2. CASE ~Goto(c, "invalid")
    BY <1>1, <1>5, <2>2 DEF LoseReplies, Callback
  <2> QED BY <2>1, <2>2
<1> QED BY <1>2, <1>3, <1>4, <1>5

LEMMA CallbackMoves ==
    ASSUME TypeOK, [Next]_vars, NEW c \in Callbacks
    PROVE  \/ cb'[c] = cb[c]
           \/ cb[c].pc = "idle" /\ cb'[c].retries = cb[c].retries
           \/ Validate(c) \/ LoseReplies(c)
<1>1. ASSUME NEW d \in Callbacks, Present(d) \/ PresentRefused(d)
      PROVE  cb'[c] = cb[c] \/ (cb[c].pc = "idle" /\ cb'[c].retries = cb[c].retries)
  <2>1. cb[d].pc = "idle" /\ cb \in [Callbacks -> Callback]
    BY <1>1 DEF Present, PresentRefused, TypeOK
  <2>2. \A e \in Callbacks : cb'[e].retries = cb[e].retries
    BY <1>1, <2>1 DEF Present, PresentRefused, Goto, Callback
  <2>3. c # d => cb'[c] = cb[c]
    BY <1>1, <2>1 DEF Present, PresentRefused, Goto
  <2> QED BY <2>1, <2>2, <2>3
<1>2. ASSUME NEW d \in Callbacks, Validate(d) \/ LoseReplies(d), d # c
      PROVE  cb'[c] = cb[c]
  <2>1. cb \in [Callbacks -> Callback]
    BY DEF TypeOK
  <2> QED BY <1>2, <2>1 DEF Validate, LoseReplies, GetState, DelState, Resume, Goto
<1>3. CASE UNCHANGED cb
  BY <1>3
<1>4. ASSUME NEW s \in States, Login(s) PROVE UNCHANGED cb
  BY <1>4 DEF Login, GenerateState, SetState, OfferState, LoseSetReply
<1> QED BY <1>1, <1>2, <1>3, <1>4 DEF Next, LoseEntries, Tick, vars

LEMMA RetriesStay ==
    ASSUME TypeOK, RetriesBounded, [Next]_vars
    PROVE  RetriesBounded'
<1>1. SUFFICES ASSUME NEW c \in Callbacks
      PROVE  cb'[c].retries \in 0 .. MaxRetriesPerRequest
  BY DEF RetriesBounded
<1>2. cb[c].retries \in 0 .. MaxRetriesPerRequest /\ MaxRetriesPerRequest \in Nat
  BY NatAssumption DEF RetriesBounded
<1>3. CASE Validate(c) \/ LoseReplies(c)
  <2>1. cb'[c].retries \in {cb[c].retries, cb[c].retries + 1}
        /\ (cb'[c].retries # cb[c].retries => cb[c].retries < MaxRetriesPerRequest)
    BY <1>3, InRedisSteps DEF Validate
  <2> QED BY <1>2, <2>1
<1> QED BY <1>2, <1>3, CallbackMoves

\* A callback waits for a bounded number of commands and replies, however the connections
\* break and whatever the other callbacks do: what is left of CallbackAnswered when nothing
\* is known about fairness.
THEOREM CallbacksGoForward == Spec => CallbacksAdvance
<1>1. Init => RetriesBounded
  BY NatAssumption DEF Init, RetriesBounded
<1>2. IndInv /\ RetriesBounded /\ [Next]_vars => RetriesBounded'
  BY RetriesStay DEF IndInv, ProtocolInv
<1> DEFINE Advances(c) ==
      cb[c].pc \in InRedis /\ cb'[c].pc \in InRedis /\ cb'[c] # cb[c]
      => CallsLeft(c)' \in 1 .. CallsLeft(c) - 1
<1>3. ASSUME TypeOK, RetriesBounded, [Next]_vars, NEW c \in Callbacks,
             cb[c].pc \in InRedis, cb'[c].pc \in InRedis, cb'[c] # cb[c]
      PROVE  CallsLeft(c)' \in 1 .. CallsLeft(c) - 1
  <2>1. cb[c].retries \in 0 .. MaxRetriesPerRequest /\ MaxRetriesPerRequest \in Nat
    BY <1>3, NatAssumption DEF RetriesBounded
  <2>2. GetState(c) \/ DelState(c) \/ Resume(c) \/ LoseReplies(c)
    BY <1>3, CallbackMoves DEF Validate, InRedis
  <2>3. StepsLeft["get"] = 3 /\ StepsLeft["del"] = 2 /\ StepsLeft["reply"] = 1
    BY DEF StepsLeft
  <2>4. /\ \/ /\ cb[c].pc = "get" /\ cb'[c].pc = "del" /\ cb'[c].retries = cb[c].retries
           \/ /\ cb[c].pc = "del" /\ cb'[c].pc = "reply" /\ cb'[c].retries = cb[c].retries
           \/ /\ cb[c].retries < MaxRetriesPerRequest
              /\ cb'[c].pc = "get" /\ cb'[c].retries = cb[c].retries + 1
        /\ cb[c].pc = "get" \/ cb[c].pc = "del" \/ cb[c].pc = "reply"
    BY <1>3, <2>2, InRedisSteps DEF InRedis
  <2> QED BY <2>1, <2>3, <2>4 DEF CallsLeft
<1>4. IndInv /\ RetriesBounded /\ [Next]_vars => [\A c \in Callbacks : Advances(c)]_vars
  BY <1>3 DEF IndInv, ProtocolInv
<1> QED BY <1>1, <1>2, <1>4, StateProtocolInvariant, PTL DEF Spec, CallbacksAdvance
=============================================================================
