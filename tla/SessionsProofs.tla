--------------------------- MODULE SessionsProofs ---------------------------
(* Proofs about Sessions, for every set of ids and of concurrent calls,    *)
(* every lifetime and number of calls cut short.                           *)
EXTENDS Sessions, TLAPS

(* The type of a call.                                                     *)
Call == [at : Labels, sid : Ids \cup {None}, ttl : 0..TTL, todo : SUBSET Ids,
         seen : SUBSET Ids, due : SUBSET Ids, next : Ids \cup {None}]

(* A call that acts on a session has one, and the lifetime it carries to   *)
(* an EXPIRE is a positive one.                                            *)
Sane(c) == /\ c.at \notin {"idle", "list", "delMembers", "delIndex"} => c.sid # None
           /\ c.at \in {"sadd", "expire", "bump"} => c.ttl > 0

(* The id a login in flight has yet to SET.                                *)
TargetOf(c) ==
    IF c.at = "set" THEN c.sid
    ELSE IF c.at \in {"get", "srem", "del"} THEN c.next ELSE None
Target(p) == TargetOf(call[p])

(* The ids a call may delete, index or issue.                              *)
ReachOf(c) ==
    c.seen \cup c.todo \cup (IF c.at = "set" THEN {} ELSE {c.sid})
      \cup (IF c.at = "list" THEN {c.next} ELSE {})
Reach(p) == ReachOf(call[p])

Known == issued \cup index \cup revoked

(* Every id anyone knows of was drawn by a login.                          *)
DrawnBy(c) == c.seen \cup c.todo \subseteq used /\ {c.sid, c.next} \subseteq used \cup {None}
Drawn == Known \subseteq used /\ \A p \in Clients : DrawnBy(call[p])

(* Until its SET, nobody else can name the id of a login.                  *)
Fresh == \A p \in Clients : Target(p) # None =>
    /\ Target(p) \notin Known
    /\ \A q \in Clients : /\ Target(p) \notin Reach(q)
                          /\ q # p => Target(q) # Target(p)

IInv ==
    /\ TypeOK /\ Drawn /\ Fresh /\ RevokedStaysRevoked
    /\ \A p \in Clients : Sane(call[p])

LEMMA InitIInv == Init => IInv
<1> SUFFICES ASSUME Init PROVE IInv
  OBVIOUS
<1> USE SessionsAssumption DEF Init, Idle
<1>1. TypeOK
  BY DEF TypeOK, Labels, Persistent
<1>2. Drawn /\ Fresh
  BY DEF Drawn, DrawnBy, Known, Fresh, Target, TargetOf, Reach, ReachOf
<1>3. RevokedStaysRevoked /\ \A p \in Clients : Sane(call[p])
  BY DEF RevokedStaysRevoked, Sane
<1> QED
  BY <1>1, <1>2, <1>3 DEF IInv

(* The commands on the index keep "a lifetime exactly when it exists".     *)
IndexOK == index \subseteq Ids /\ indexTtl \in 0..Persistent /\ (index = {} <=> indexTtl = 0)

LEMMA IndexCommands ==
    ASSUME IndexOK
    PROVE  /\ \A s \in Ids : SAdd(s) => IndexOK'
           /\ \A S \in SUBSET Ids : SRem(S) => IndexOK'
           /\ \A t \in 1..TTL : Expire(t) => IndexOK'
BY SessionsAssumption DEF IndexOK, SAdd, SRem, Expire, Persistent

(* The updates of a call have its type.                                    *)
LEMMA CallUpdates ==
    \A c \in Call, a \in Labels :
        /\ [c EXCEPT !.at = a] \in Call
        /\ \A s \in Ids \cup {None} : [c EXCEPT !.at = a, !.sid = s] \in Call
        /\ \A t \in 0..TTL : [c EXCEPT !.at = a, !.ttl = t] \in Call
        /\ \A s \in Ids \cup {None}, t \in 0..TTL :
              [c EXCEPT !.at = a, !.sid = s, !.ttl = t] \in Call
        /\ \A s, n \in Ids \cup {None} : [c EXCEPT !.at = a, !.sid = s, !.next = n] \in Call
        /\ \A S, D \in SUBSET Ids : [c EXCEPT !.at = a, !.seen = S, !.due = D] \in Call
        /\ \A n \in Ids \cup {None}, S \in SUBSET Ids :
              [c EXCEPT !.at = a, !.todo = S, !.next = n] \in Call
<1> TAKE c \in Call, a \in Labels
<1>1. /\ [c EXCEPT !.at = a] \in Call
      /\ \A s \in Ids \cup {None} : [c EXCEPT !.at = a, !.sid = s] \in Call
      /\ \A t \in 0..TTL : [c EXCEPT !.at = a, !.ttl = t] \in Call
  BY DEF Call
<1>2. \A s \in Ids \cup {None}, t \in 0..TTL :
         [c EXCEPT !.at = a, !.sid = s, !.ttl = t] \in Call
  BY DEF Call
<1>3. \A s, n \in Ids \cup {None} : [c EXCEPT !.at = a, !.sid = s, !.next = n] \in Call
  BY DEF Call
<1>4. \A S, D \in SUBSET Ids : [c EXCEPT !.at = a, !.seen = S, !.due = D] \in Call
  BY DEF Call
<1>5. \A n \in Ids \cup {None}, S \in SUBSET Ids :
         [c EXCEPT !.at = a, !.todo = S, !.next = n] \in Call
  BY DEF Call
<1> QED
  BY <1>1, <1>2, <1>3, <1>4, <1>5

LEMMA CallFields ==
    \A c \in Call : /\ c.sid \in Ids \cup {None} /\ c.next \in Ids \cup {None}
                    /\ c.ttl \in 0..TTL /\ c.todo \subseteq Ids /\ c.seen \subseteq Ids /\ c.due \subseteq Ids
BY DEF Call

LEMMA Lifetimes == TTL \in 0..TTL /\ \A t \in 0..TTL : AtLeastOne(t) \in 0..TTL
BY SessionsAssumption DEF AtLeastOne

LEMMA LabelNames ==
    /\ "idle" \in Labels /\ "set" \in Labels /\ "sadd" \in Labels /\ "expire" \in Labels
    /\ "touch" \in Labels /\ "bump" \in Labels /\ "get" \in Labels /\ "srem" \in Labels
    /\ "del" \in Labels /\ "delMembers" \in Labels /\ "delIndex" \in Labels
    /\ "list" \in Labels
BY DEF Labels

LEMMA IdleCall == Idle \in Call
BY SessionsAssumption DEF Idle, Call, Labels

(* A call of p moves on to r.  What r can name is what the call could name *)
(* before, or what anyone can, and the id it was to SET if it no longer    *)
(* is.                                                                     *)
Follows(p, r) ==
    /\ Sane(r) /\ DrawnBy(r)
    /\ ReachOf(r) \subseteq Known \cup Reach(p) \cup {None, Target(p)}
    /\ \/ TargetOf(r) = None
       \/ TargetOf(r) = Target(p) /\ ReachOf(r) \subseteq Known \cup Reach(p) \cup {None}

LEMMA CallMoves ==
    ASSUME IInv, NEW p \in Clients, NEW r \in Call, Goto(p, r), Follows(p, r),
           used' = used, Known' \subseteq (Known \cup Reach(p)) \cap used
    PROVE  /\ call' \in [Clients -> Call] /\ call'[p] = r
           /\ Drawn' /\ Fresh' /\ \A q \in Clients : Sane(call'[q])
<1>1. /\ call' \in [Clients -> Call] /\ call'[p] = r
      /\ \A q \in Clients : q # p => call'[q] = call[q]
  BY DEF Goto, IInv, TypeOK, Call
<1>2. Drawn' /\ \A q \in Clients : Sane(call'[q])
  BY <1>1 DEF IInv, Follows, Drawn, DrawnBy
<1>3. /\ Target(p)' = TargetOf(r) /\ Reach(p)' = ReachOf(r)
      /\ \A q \in Clients : q # p => Target(q)' = Target(q) /\ Reach(q)' = Reach(q)
  BY <1>1 DEF Target, Reach, TargetOf, ReachOf
<1>4. Fresh'
  <2> SUFFICES ASSUME NEW q \in Clients, Target(q)' # None
               PROVE  /\ Target(q)' \notin Known'
                      /\ \A o \in Clients : /\ Target(q)' \notin Reach(o)'
                                            /\ o # q => Target(o)' # Target(q)'
    BY DEF Fresh
  <2>1. Target(q)' = Target(q)
    BY <1>3 DEF Follows
  <2>2. /\ Target(q) \notin Known
        /\ \A o \in Clients : Target(q) \notin Reach(o) /\ (o # q => Target(o) # Target(q))
    BY <2>1 DEF IInv, Fresh
  <2>3. Target(q)' \notin Known'
    BY <2>1, <2>2
  <2>4. ASSUME NEW o \in Clients PROVE Target(q)' \notin Reach(o)'
    <3>1. CASE o # p
      BY <1>3, <2>1, <2>2, <3>1
    <3>2. CASE o = p
      BY <1>3, <2>1, <2>2, <3>2 DEF Follows
    <3> QED
      BY <3>1, <3>2
  <2>5. ASSUME NEW o \in Clients, o # q PROVE Target(o)' # Target(q)'
    BY <1>3, <2>1, <2>2, <2>5 DEF Follows
  <2> QED
    BY <2>3, <2>4, <2>5
<1> QED
  BY <1>1, <1>2, <1>4

LEMMA NextIInv == IInv /\ [Next]_vars => IInv'
<1> SUFFICES ASSUME IInv, [Next]_vars PROVE IInv'
  OBVIOUS
<1> USE SessionsAssumption DEF IInv, redisVars, historyVars
<1>1. ASSUME Tick PROVE IInv'
  <2> USE <1>1 DEF Tick
  <2>1. \A n \in 0..TTL : Less(n) \in 0..TTL
    BY DEF Less
  <2>2. \A p \in Clients : call[p] \in Call
    BY DEF TypeOK, Call
  <2>3. IndexOK'
    BY DEF IndexOK, TypeOK, Persistent, Less
  <2>4. ASSUME NEW p \in Clients
        PROVE  /\ call'[p] \in Call /\ Sane(call'[p])
               /\ call'[p].seen = call[p].seen /\ call'[p].sid = call[p].sid
               /\ call'[p].next = call[p].next /\ call'[p].at = call[p].at
    BY <2>1, <2>2 DEF Call, Sane
  <2>5. TypeOK'
    <3>1. call' \in [Clients -> Call]
      BY <2>4
    <3>2. live' \in [Ids -> 0..TTL]
      BY <2>1 DEF TypeOK
    <3>3. excused' \subseteq Ids
      BY <2>2, CallFields DEF TypeOK, Sane
    <3> QED
      BY <2>3, <2>4, <3>1, <3>2, <3>3 DEF TypeOK, IndexOK, Call, Sane
  <2>6. Drawn' /\ Fresh'
    BY <2>4 DEF Drawn, DrawnBy, Known, Fresh, Target, TargetOf, Reach, ReachOf
  <2>7. RevokedStaysRevoked'
    BY DEF RevokedStaysRevoked, TypeOK, Less
  <2> QED
    BY <2>4, <2>5, <2>6, <2>7
<1>2. ASSUME NEW p \in Clients, NEW s \in Ids, NEW previous \in Ids \cup {None},
             Login(p, s, previous)
      PROVE  IInv'
  <2> DEFINE r == IF previous = None THEN [Idle EXCEPT !.at = "set", !.sid = s]
                  ELSE [Idle EXCEPT !.at = "get", !.sid = previous, !.next = s]
  <2> USE <1>2 DEF Login
  <2>1. r \in Call /\ Sane(r)
    <3>1. r \in Call
      BY CallUpdates, IdleCall, LabelNames
    <3> QED
      BY <3>1 DEF Sane, Idle
  <2>2. /\ call' \in [Clients -> Call] /\ call'[p] = r
        /\ \A q \in Clients : q # p => call'[q] = call[q]
    BY <2>1 DEF Goto, TypeOK, Call
  <2>3. /\ TargetOf(r) = s /\ s \notin used /\ s # None
        /\ ReachOf(r) \subseteq issued
        /\ r.seen = {} /\ r.todo = {} /\ r.sid \in issued \cup {s} /\ r.next \in {None, s}
    BY DEF TargetOf, ReachOf, Idle
  <2>4. /\ used' = used \cup {s} /\ Known' = Known /\ issued \subseteq used
        /\ \A q \in Clients : DrawnBy(call[q])
    <3>1. /\ used' = used \cup {s}
          /\ issued' = issued /\ index' = index /\ revoked' = revoked
      OBVIOUS
    <3>2. issued \subseteq used /\ \A q \in Clients : DrawnBy(call[q])
      BY DEF Drawn, TypeOK
    <3> QED
      BY <3>1, <3>2 DEF Known
  <2>5. Drawn'
    <3>1. Known' \subseteq used'
      BY <2>4 DEF Drawn
    <3>2. DrawnBy(r)'
      BY <2>3, <2>4 DEF DrawnBy
    <3>3. ASSUME NEW q \in Clients, q # p PROVE DrawnBy(call[q])'
      BY <2>2, <2>4, <3>3 DEF DrawnBy
    <3> HIDE DEF r
    <3> QED
      BY <2>2, <3>1, <3>2, <3>3 DEF Drawn, DrawnBy
  <2>6. ASSUME NEW q \in Clients
        PROVE  Target(q) \in used \cup {None} /\ Reach(q) \subseteq used \cup {None}
    BY <2>4 DEF Target, TargetOf, Reach, ReachOf, DrawnBy
  <2>7. /\ Target(p)' = s /\ Reach(p)' \subseteq issued
        /\ \A q \in Clients : q # p => Target(q)' = Target(q) /\ Reach(q)' = Reach(q)
    <3> HIDE DEF r
    <3> QED
      BY <2>2, <2>3 DEF Target, Reach, TargetOf, ReachOf
  <2>8. Fresh'
    <3> SUFFICES ASSUME NEW q \in Clients, Target(q)' # None
                 PROVE  /\ Target(q)' \notin Known'
                        /\ \A o \in Clients : /\ Target(q)' \notin Reach(o)'
                                              /\ o # q => Target(o)' # Target(q)'
      BY DEF Fresh
    <3>1. CASE q = p
      BY <2>3, <2>4, <2>6, <2>7, <3>1 DEF Drawn
    <3>2. CASE q # p
      <4>1. /\ Target(q)' = Target(q) /\ Target(q) \notin Known /\ Target(q) \in used
            /\ \A o \in Clients : Target(q) \notin Reach(o) /\ (o # q => Target(o) # Target(q))
        BY <2>6, <2>7, <3>2 DEF Fresh
      <4> QED
        BY <2>3, <2>4, <2>7, <4>1 DEF Known
    <3> QED
      BY <3>1, <3>2
  <2>9. TypeOK' /\ (\A q \in Clients : Sane(call'[q])) /\ RevokedStaysRevoked'
    <3>1. \A q \in Clients : Sane(call'[q])
      BY <2>1, <2>2
    <3>2. \A q \in Clients : call'[q].at \in {"sadd", "expire", "bump"} => call'[q].ttl > 0
      BY <3>1 DEF Sane
    <3>3. TypeOK'
      BY <2>2, <3>2 DEF TypeOK, Call
    <3> QED
      BY <3>1, <3>3 DEF RevokedStaysRevoked
  <2> QED
    BY <2>5, <2>8, <2>9
<1>3. ASSUME NEW p \in Clients, Set(p) PROVE IInv'
  <2> DEFINE r == [call[p] EXCEPT !.at = "sadd", !.ttl = TTL]
  <2> USE <1>3 DEF Set
  <2>1. call[p] \in Call /\ Goto(p, r)
    BY DEF TypeOK, Call
  <2>2. r \in Call
    BY <2>1, CallUpdates, CallFields, IdleCall, LabelNames, Lifetimes DEF TypeOK
  <2>3. Follows(p, r)
    BY <2>1 DEF Follows, Sane, DrawnBy, Drawn, Known, Reach, ReachOf, Target,
       TargetOf, Call, Idle, TypeOK
  <2>4. IndexOK'
    BY DEF IndexOK, TypeOK, Persistent
  <2>5. used' = used /\ Known' \subseteq (Known \cup Reach(p)) \cap used
    BY <2>1, CallFields DEF Drawn, DrawnBy, Sane, Known, Reach, ReachOf, TypeOK
  <2>6. /\ call' \in [Clients -> Call] /\ Drawn'
        /\ Fresh' /\ \A q \in Clients : Sane(call'[q])
    <3> HIDE DEF r
    <3> QED
      BY <2>1, <2>2, <2>3, <2>5, CallMoves
  <2>7. TypeOK'
    BY <2>1, <2>4, <2>6, CallFields DEF TypeOK, Drawn, DrawnBy, IndexOK, Call, Sane
  <2>8. RevokedStaysRevoked'
    BY <2>1, CallFields DEF RevokedStaysRevoked, Sane, TypeOK, Fresh, Target,
       TargetOf, Known
  <2> QED
    BY <2>6, <2>7, <2>8
<1>4. ASSUME NEW p \in Clients, SetIndex(p) PROVE IInv'
  <2> DEFINE r == [call[p] EXCEPT !.at = "expire"]
  <2> USE <1>4 DEF SetIndex
  <2>1. call[p] \in Call /\ Goto(p, r)
    BY DEF TypeOK, Call
  <2>2. r \in Call
    BY <2>1, CallUpdates, CallFields, IdleCall, LabelNames, Lifetimes DEF TypeOK
  <2>3. Follows(p, r)
    BY <2>1 DEF Follows, Sane, DrawnBy, Drawn, Known, Reach, ReachOf, Target,
       TargetOf, Call, Idle, TypeOK
  <2>4. IndexOK'
    BY <2>1, IndexCommands DEF IndexOK, TypeOK, Sane, Call
  <2>5. used' = used /\ Known' \subseteq (Known \cup Reach(p)) \cap used
    BY <2>1, CallFields DEF Drawn, DrawnBy, Sane, Known, Reach, ReachOf, TypeOK, SAdd
  <2>6. /\ call' \in [Clients -> Call] /\ Drawn'
        /\ Fresh' /\ \A q \in Clients : Sane(call'[q])
    <3> HIDE DEF r
    <3> QED
      BY <2>1, <2>2, <2>3, <2>5, CallMoves
  <2>7. TypeOK'
    BY <2>1, <2>4, <2>6, CallFields DEF TypeOK, Drawn, DrawnBy, IndexOK, Call, Sane
  <2>8. RevokedStaysRevoked'
    <3>1. live' = live /\ revoked' = revoked
      OBVIOUS
    <3> QED
      BY <3>1 DEF RevokedStaysRevoked
  <2> QED
    BY <2>6, <2>7, <2>8
<1>5. ASSUME NEW p \in Clients, SetIndexTtl(p) PROVE IInv'
  <2> DEFINE r == Idle
  <2> USE <1>5 DEF SetIndexTtl
  <2>1. call[p] \in Call /\ Goto(p, r)
    BY DEF TypeOK, Call
  <2>2. r \in Call
    BY <2>1, CallUpdates, CallFields, IdleCall, LabelNames, Lifetimes DEF TypeOK
  <2>3. Follows(p, r)
    BY <2>1 DEF Follows, Sane, DrawnBy, Drawn, Known, Reach, ReachOf, Target,
       TargetOf, Call, Idle, TypeOK
  <2>4. IndexOK'
    BY <2>1, IndexCommands DEF IndexOK, TypeOK, Sane, Call
  <2>5. used' = used /\ Known' \subseteq (Known \cup Reach(p)) \cap used
    BY <2>1, CallFields DEF Drawn, DrawnBy, Sane, Known, Reach, ReachOf, TypeOK, Expire
  <2>6. /\ call' \in [Clients -> Call] /\ Drawn'
        /\ Fresh' /\ \A q \in Clients : Sane(call'[q])
    <3> HIDE DEF r
    <3> QED
      BY <2>1, <2>2, <2>3, <2>5, CallMoves
  <2>7. TypeOK'
    BY <2>1, <2>4, <2>6, CallFields DEF TypeOK, Drawn, DrawnBy, IndexOK, Call, Sane,
       Expire
  <2>8. RevokedStaysRevoked'
    <3>1. live' = live /\ revoked' = revoked
      OBVIOUS
    <3> QED
      BY <3>1 DEF RevokedStaysRevoked
  <2> QED
    BY <2>6, <2>7, <2>8
<1>6. ASSUME NEW p \in Clients, NEW s \in Ids, Resolve(p, s) PROVE IInv'
  <2> DEFINE r == [Idle EXCEPT !.at = "touch", !.sid = s,
                              !.ttl = IF sliding THEN TTL ELSE live[s]]
  <2> USE <1>6 DEF Resolve
  <2>1. call[p] \in Call /\ Goto(p, r)
    BY DEF TypeOK, Call
  <2>2. r \in Call
    BY <2>1, CallUpdates, CallFields, IdleCall, LabelNames, Lifetimes DEF TypeOK
  <2>3. Follows(p, r)
    BY <2>1 DEF Follows, Sane, DrawnBy, Drawn, Known, Reach, ReachOf, Target,
       TargetOf, Call, Idle, TypeOK
  <2>4. IndexOK'
    BY DEF IndexOK, TypeOK, Persistent
  <2>5. used' = used /\ Known' \subseteq (Known \cup Reach(p)) \cap used
    BY <2>1, CallFields DEF Drawn, DrawnBy, Sane, Known, Reach, ReachOf, TypeOK
  <2>6. /\ call' \in [Clients -> Call] /\ Drawn'
        /\ Fresh' /\ \A q \in Clients : Sane(call'[q])
    <3> HIDE DEF r
    <3> QED
      BY <2>1, <2>2, <2>3, <2>5, CallMoves
  <2>7. TypeOK'
    BY <2>1, <2>4, <2>6, CallFields DEF TypeOK, Drawn, DrawnBy, IndexOK, Call, Sane
  <2>8. RevokedStaysRevoked'
    <3>1. live' = live /\ revoked' = revoked
      OBVIOUS
    <3> QED
      BY <3>1 DEF RevokedStaysRevoked
  <2> QED
    BY <2>6, <2>7, <2>8
<1>7. ASSUME NEW p \in Clients, Touch(p) PROVE IInv'
  <2> DEFINE r == [call[p] EXCEPT !.at = "bump", !.ttl = AtLeastOne(call[p].ttl)]
  <2> USE <1>7 DEF Touch, Bump, Writes
  <2>1. call[p] \in Call /\ Goto(p, r)
    BY DEF TypeOK, Call
  <2>2. r \in Call
    BY <2>1, CallUpdates, CallFields, IdleCall, LabelNames, Lifetimes DEF TypeOK
  <2>3. Follows(p, r)
    BY <2>1 DEF Follows, Sane, DrawnBy, Drawn, Known, Reach, ReachOf, Target,
       TargetOf, Call, Idle, AtLeastOne, TypeOK
  <2>4. IndexOK'
    BY DEF IndexOK, TypeOK, Persistent
  <2>5. used' = used /\ Known' \subseteq (Known \cup Reach(p)) \cap used
    BY <2>1, CallFields DEF Drawn, DrawnBy, Sane, Known, Reach, ReachOf, TypeOK
  <2>6. /\ call' \in [Clients -> Call] /\ Drawn'
        /\ Fresh' /\ \A q \in Clients : Sane(call'[q])
    <3> HIDE DEF r
    <3> QED
      BY <2>1, <2>2, <2>3, <2>5, CallMoves
  <2>7. TypeOK'
    BY <2>1, <2>4, <2>6, CallFields DEF TypeOK, Drawn, DrawnBy, IndexOK, Call, Sane,
       AtLeastOne
  <2>8. RevokedStaysRevoked'
    BY <2>1, CallFields DEF RevokedStaysRevoked, Sane, TypeOK, Fresh, Target,
       TargetOf, Known, AtLeastOne
  <2> QED
    BY <2>6, <2>7, <2>8
<1>8. ASSUME NEW p \in Clients, TouchGone(p) PROVE IInv'
  <2> DEFINE r == Idle
  <2> USE <1>8 DEF TouchGone, Writes
  <2>1. call[p] \in Call /\ Goto(p, r)
    BY DEF TypeOK, Call
  <2>2. r \in Call
    BY <2>1, CallUpdates, CallFields, IdleCall, LabelNames, Lifetimes DEF TypeOK
  <2>3. Follows(p, r)
    BY <2>1 DEF Follows, Sane, DrawnBy, Drawn, Known, Reach, ReachOf, Target,
       TargetOf, Call, Idle, TypeOK
  <2>4. IndexOK'
    BY DEF IndexOK, TypeOK, Persistent
  <2>5. used' = used /\ Known' \subseteq (Known \cup Reach(p)) \cap used
    BY <2>1, CallFields DEF Drawn, DrawnBy, Sane, Known, Reach, ReachOf, TypeOK
  <2>6. /\ call' \in [Clients -> Call] /\ Drawn'
        /\ Fresh' /\ \A q \in Clients : Sane(call'[q])
    <3> HIDE DEF r
    <3> QED
      BY <2>1, <2>2, <2>3, <2>5, CallMoves
  <2>7. TypeOK'
    BY <2>1, <2>4, <2>6, CallFields DEF TypeOK, Drawn, DrawnBy, IndexOK, Call, Sane
  <2>8. RevokedStaysRevoked'
    <3>1. live' = live /\ revoked' = revoked
      OBVIOUS
    <3> QED
      BY <3>1 DEF RevokedStaysRevoked
  <2> QED
    BY <2>6, <2>7, <2>8
<1>9. ASSUME NEW p \in Clients, NEW s \in Ids, Revoke(p, s) PROVE IInv'
  <2> DEFINE r == [Idle EXCEPT !.at = "get", !.sid = s]
  <2> USE <1>9 DEF Revoke
  <2>1. call[p] \in Call /\ Goto(p, r)
    BY DEF TypeOK, Call
  <2>2. r \in Call
    BY <2>1, CallUpdates, CallFields, IdleCall, LabelNames, Lifetimes DEF TypeOK
  <2>3. Follows(p, r)
    BY <2>1 DEF Follows, Sane, DrawnBy, Drawn, Known, Reach, ReachOf, Target,
       TargetOf, Call, Idle, TypeOK
  <2>4. IndexOK'
    BY DEF IndexOK, TypeOK, Persistent
  <2>5. used' = used /\ Known' \subseteq (Known \cup Reach(p)) \cap used
    BY <2>1, CallFields DEF Drawn, DrawnBy, Sane, Known, Reach, ReachOf, TypeOK
  <2>6. /\ call' \in [Clients -> Call] /\ Drawn'
        /\ Fresh' /\ \A q \in Clients : Sane(call'[q])
    <3> HIDE DEF r
    <3> QED
      BY <2>1, <2>2, <2>3, <2>5, CallMoves
  <2>7. TypeOK'
    BY <2>1, <2>4, <2>6, CallFields DEF TypeOK, Drawn, DrawnBy, IndexOK, Call, Sane
  <2>8. RevokedStaysRevoked'
    <3>1. live' = live /\ revoked' = revoked
      OBVIOUS
    <3> QED
      BY <3>1 DEF RevokedStaysRevoked
  <2> QED
    BY <2>6, <2>7, <2>8
<1>10. ASSUME NEW p \in Clients, DeleteGet(p) PROVE IInv'
  <2> DEFINE r == [call[p] EXCEPT !.at = IF live[call[p].sid] > 0 THEN "srem" ELSE "del"]
  <2> USE <1>10 DEF DeleteGet
  <2>1. call[p] \in Call /\ Goto(p, r)
    BY DEF TypeOK, Call
  <2>2. r \in Call
    BY <2>1, CallUpdates, CallFields, IdleCall, LabelNames, Lifetimes DEF TypeOK
  <2>3. Follows(p, r)
    BY <2>1 DEF Follows, Sane, DrawnBy, Drawn, Known, Reach, ReachOf, Target,
       TargetOf, Call, Idle, TypeOK
  <2>4. IndexOK'
    BY DEF IndexOK, TypeOK, Persistent
  <2>5. used' = used /\ Known' \subseteq (Known \cup Reach(p)) \cap used
    BY <2>1, CallFields DEF Drawn, DrawnBy, Sane, Known, Reach, ReachOf, TypeOK
  <2>6. /\ call' \in [Clients -> Call] /\ Drawn'
        /\ Fresh' /\ \A q \in Clients : Sane(call'[q])
    <3> HIDE DEF r
    <3> QED
      BY <2>1, <2>2, <2>3, <2>5, CallMoves
  <2>7. TypeOK'
    BY <2>1, <2>4, <2>6, CallFields DEF TypeOK, Drawn, DrawnBy, IndexOK, Call, Sane
  <2>8. RevokedStaysRevoked'
    <3>1. live' = live /\ revoked' = revoked
      OBVIOUS
    <3> QED
      BY <3>1 DEF RevokedStaysRevoked
  <2> QED
    BY <2>6, <2>7, <2>8
<1>11. ASSUME NEW p \in Clients, DeleteFromIndex(p) PROVE IInv'
  <2> DEFINE r == [call[p] EXCEPT !.at = "del"]
  <2> USE <1>11 DEF DeleteFromIndex
  <2>1. call[p] \in Call /\ Goto(p, r)
    BY DEF TypeOK, Call
  <2>2. r \in Call
    BY <2>1, CallUpdates, CallFields, IdleCall, LabelNames, Lifetimes DEF TypeOK
  <2>3. Follows(p, r)
    BY <2>1 DEF Follows, Sane, DrawnBy, Drawn, Known, Reach, ReachOf, Target,
       TargetOf, Call, Idle, TypeOK
  <2>4. IndexOK'
    BY <2>1, IndexCommands DEF IndexOK, TypeOK, Sane, Call
  <2>5. used' = used /\ Known' \subseteq (Known \cup Reach(p)) \cap used
    BY <2>1, CallFields DEF Drawn, DrawnBy, Sane, Known, Reach, ReachOf, TypeOK, SRem
  <2>6. /\ call' \in [Clients -> Call] /\ Drawn'
        /\ Fresh' /\ \A q \in Clients : Sane(call'[q])
    <3> HIDE DEF r
    <3> QED
      BY <2>1, <2>2, <2>3, <2>5, CallMoves
  <2>7. TypeOK'
    BY <2>1, <2>4, <2>6, CallFields DEF TypeOK, Drawn, DrawnBy, IndexOK, Call, Sane
  <2>8. RevokedStaysRevoked'
    <3>1. live' = live /\ revoked' = revoked
      OBVIOUS
    <3> QED
      BY <3>1 DEF RevokedStaysRevoked
  <2> QED
    BY <2>6, <2>7, <2>8
<1>12. ASSUME NEW p \in Clients, DeleteKey(p) PROVE IInv'
  <2> DEFINE r == IF call[p].next = None THEN Idle
                  ELSE [Idle EXCEPT !.at = "set", !.sid = call[p].next]
  <2> USE <1>12 DEF DeleteKey
  <2>1. call[p] \in Call /\ Goto(p, r)
    BY DEF TypeOK, Call
  <2>2. r \in Call
    BY <2>1, CallUpdates, CallFields, IdleCall, LabelNames, Lifetimes DEF TypeOK
  <2>3. Follows(p, r)
    BY <2>1 DEF Follows, Sane, DrawnBy, Drawn, Known, Reach, ReachOf, Target,
       TargetOf, Call, Idle, TypeOK
  <2>4. IndexOK'
    BY DEF IndexOK, TypeOK, Persistent
  <2>5. used' = used /\ Known' \subseteq (Known \cup Reach(p)) \cap used
    BY <2>1, CallFields DEF Drawn, DrawnBy, Sane, Known, Reach, ReachOf, TypeOK
  <2>6. /\ call' \in [Clients -> Call] /\ Drawn'
        /\ Fresh' /\ \A q \in Clients : Sane(call'[q])
    <3> HIDE DEF r
    <3> QED
      BY <2>1, <2>2, <2>3, <2>5, CallMoves
  <2>7. TypeOK'
    BY <2>1, <2>4, <2>6, CallFields DEF TypeOK, Drawn, DrawnBy, IndexOK, Call, Sane
  <2>8. RevokedStaysRevoked'
    BY <2>1, CallFields DEF RevokedStaysRevoked, Sane, TypeOK, Fresh, Target,
       TargetOf, Known
  <2> QED
    BY <2>6, <2>7, <2>8
<1>13. ASSUME NEW p \in Clients, RevokeAll(p) PROVE IInv'
  <2> DEFINE r == [Idle EXCEPT !.at = "delMembers", !.seen = index,
                              !.due = {s \in issued : live[s] > 0}]
  <2> USE <1>13 DEF RevokeAll
  <2>1. call[p] \in Call /\ Goto(p, r)
    BY DEF TypeOK, Call
  <2>2. r \in Call
    BY <2>1, CallUpdates, CallFields, IdleCall, LabelNames, Lifetimes DEF TypeOK
  <2>3. Follows(p, r)
    BY <2>1 DEF Follows, Sane, DrawnBy, Drawn, Known, Reach, ReachOf, Target,
       TargetOf, Call, Idle, TypeOK
  <2>4. IndexOK'
    BY DEF IndexOK, TypeOK, Persistent
  <2>5. used' = used /\ Known' \subseteq (Known \cup Reach(p)) \cap used
    BY <2>1, CallFields DEF Drawn, DrawnBy, Sane, Known, Reach, ReachOf, TypeOK
  <2>6. /\ call' \in [Clients -> Call] /\ Drawn'
        /\ Fresh' /\ \A q \in Clients : Sane(call'[q])
    <3> HIDE DEF r
    <3> QED
      BY <2>1, <2>2, <2>3, <2>5, CallMoves
  <2>7. TypeOK'
    BY <2>1, <2>4, <2>6, CallFields DEF TypeOK, Drawn, DrawnBy, IndexOK, Call, Sane
  <2>8. RevokedStaysRevoked'
    <3>1. live' = live /\ revoked' = revoked
      OBVIOUS
    <3> QED
      BY <3>1 DEF RevokedStaysRevoked
  <2> QED
    BY <2>6, <2>7, <2>8
<1>14. ASSUME NEW p \in Clients, RevokeMembers(p) PROVE IInv'
  <2> DEFINE r == [call[p] EXCEPT !.at = "delIndex"]
  <2> USE <1>14 DEF RevokeMembers
  <2>1. call[p] \in Call /\ Goto(p, r)
    BY DEF TypeOK, Call
  <2>2. r \in Call
    BY <2>1, CallUpdates, CallFields, IdleCall, LabelNames, Lifetimes DEF TypeOK
  <2>3. Follows(p, r)
    BY <2>1 DEF Follows, Sane, DrawnBy, Drawn, Known, Reach, ReachOf, Target,
       TargetOf, Call, Idle, TypeOK
  <2>4. IndexOK'
    BY DEF IndexOK, TypeOK, Persistent
  <2>5. used' = used /\ Known' \subseteq (Known \cup Reach(p)) \cap used
    BY <2>1, CallFields DEF Drawn, DrawnBy, Sane, Known, Reach, ReachOf, TypeOK
  <2>6. /\ call' \in [Clients -> Call] /\ Drawn'
        /\ Fresh' /\ \A q \in Clients : Sane(call'[q])
    <3> HIDE DEF r
    <3> QED
      BY <2>1, <2>2, <2>3, <2>5, CallMoves
  <2>7. TypeOK'
    BY <2>1, <2>4, <2>6, CallFields DEF TypeOK, Drawn, DrawnBy, IndexOK, Call, Sane
  <2>8. RevokedStaysRevoked'
    BY <2>1, CallFields DEF RevokedStaysRevoked, Sane, TypeOK, Fresh, Target,
       TargetOf, Known
  <2> QED
    BY <2>6, <2>7, <2>8
<1>15. ASSUME NEW p \in Clients, RevokeIndex(p) PROVE IInv'
  <2> DEFINE r == Idle
  <2> USE <1>15 DEF RevokeIndex
  <2>1. call[p] \in Call /\ Goto(p, r)
    BY DEF TypeOK, Call
  <2>2. r \in Call
    BY <2>1, CallUpdates, CallFields, IdleCall, LabelNames, Lifetimes DEF TypeOK
  <2>3. Follows(p, r)
    BY <2>1 DEF Follows, Sane, DrawnBy, Drawn, Known, Reach, ReachOf, Target,
       TargetOf, Call, Idle, TypeOK
  <2>4. IndexOK'
    BY DEF IndexOK, TypeOK, Persistent
  <2>5. used' = used /\ Known' \subseteq (Known \cup Reach(p)) \cap used
    BY <2>1, CallFields DEF Drawn, DrawnBy, Sane, Known, Reach, ReachOf, TypeOK
  <2>6. /\ call' \in [Clients -> Call] /\ Drawn'
        /\ Fresh' /\ \A q \in Clients : Sane(call'[q])
    <3> HIDE DEF r
    <3> QED
      BY <2>1, <2>2, <2>3, <2>5, CallMoves
  <2>7. TypeOK'
    BY <2>1, <2>4, <2>6, CallFields DEF TypeOK, Drawn, DrawnBy, IndexOK, Call, Sane
  <2>8. RevokedStaysRevoked'
    BY <2>1, CallFields DEF RevokedStaysRevoked, Sane, TypeOK, Fresh, Target,
       TargetOf, Known
  <2> QED
    BY <2>6, <2>7, <2>8
<1>16. ASSUME NEW p \in Clients, NEW s \in Ids \cup {None}, List(p, s) PROVE IInv'
  <2> DEFINE r == [Idle EXCEPT !.at = "list", !.todo = index, !.next = s]
  <2> USE <1>16 DEF List
  <2>1. call[p] \in Call /\ Goto(p, r)
    BY DEF TypeOK, Call
  <2>2. r \in Call
    BY <2>1, CallUpdates, CallFields, IdleCall, LabelNames, Lifetimes DEF TypeOK
  <2>3. Follows(p, r)
    BY <2>1 DEF Follows, Sane, DrawnBy, Drawn, Known, Reach, ReachOf, Target,
       TargetOf, Call, Idle, TypeOK
  <2>4. IndexOK'
    BY DEF IndexOK, TypeOK, Persistent
  <2>5. used' = used /\ Known' \subseteq (Known \cup Reach(p)) \cap used
    BY <2>1, CallFields DEF Drawn, DrawnBy, Sane, Known, Reach, ReachOf, TypeOK
  <2>6. /\ call' \in [Clients -> Call] /\ Drawn'
        /\ Fresh' /\ \A q \in Clients : Sane(call'[q])
    <3> HIDE DEF r
    <3> QED
      BY <2>1, <2>2, <2>3, <2>5, CallMoves
  <2>7. TypeOK'
    BY <2>1, <2>4, <2>6, CallFields DEF TypeOK, Drawn, DrawnBy, IndexOK, Call, Sane
  <2>8. RevokedStaysRevoked'
    <3>1. live' = live /\ revoked' = revoked
      OBVIOUS
    <3> QED
      BY <3>1 DEF RevokedStaysRevoked
  <2> QED
    BY <2>6, <2>7, <2>8
<1>17. ASSUME NEW p \in Clients, Prune(p) PROVE IInv'
  <2> DEFINE r == IF call[p].next = None THEN Idle
                  ELSE [Idle EXCEPT !.at = "get", !.sid = call[p].next]
  <2> USE <1>17 DEF Prune, DeleteFound
  <2>1. call[p] \in Call /\ Goto(p, r)
    BY DEF TypeOK, Call
  <2>2. r \in Call
    BY <2>1, CallUpdates, CallFields, IdleCall, LabelNames, Lifetimes DEF TypeOK
  <2>3. Follows(p, r)
    BY <2>1 DEF Follows, Sane, DrawnBy, Drawn, Known, Reach, ReachOf, Target,
       TargetOf, Call, Idle, TypeOK
  <2>4. IndexOK'
    BY <2>1, IndexCommands DEF IndexOK, TypeOK, Sane, Call
  <2>5. used' = used /\ Known' \subseteq (Known \cup Reach(p)) \cap used
    BY <2>1, CallFields DEF Drawn, DrawnBy, Sane, Known, Reach, ReachOf, TypeOK, SRem
  <2>6. /\ call' \in [Clients -> Call] /\ Drawn'
        /\ Fresh' /\ \A q \in Clients : Sane(call'[q])
    <3> HIDE DEF r
    <3> QED
      BY <2>1, <2>2, <2>3, <2>5, CallMoves
  <2>7. TypeOK'
    BY <2>1, <2>4, <2>6, CallFields DEF TypeOK, Drawn, DrawnBy, IndexOK, Call, Sane
  <2>8. RevokedStaysRevoked'
    <3>1. live' = live /\ revoked' = revoked
      OBVIOUS
    <3> QED
      BY <3>1 DEF RevokedStaysRevoked
  <2> QED
    BY <2>6, <2>7, <2>8
<1>18. ASSUME NEW p \in Clients, Crash(p) PROVE IInv'
  <2> DEFINE r == Idle
  <2> USE <1>18 DEF Crash
  <2>1. call[p] \in Call /\ Goto(p, r)
    BY DEF TypeOK, Call
  <2>2. r \in Call
    BY <2>1, CallUpdates, CallFields, IdleCall, LabelNames, Lifetimes DEF TypeOK
  <2>3. Follows(p, r)
    BY <2>1 DEF Follows, Sane, DrawnBy, Drawn, Known, Reach, ReachOf, Target,
       TargetOf, Call, Idle, TypeOK
  <2>4. IndexOK'
    BY DEF IndexOK, TypeOK, Persistent
  <2>5. used' = used /\ Known' \subseteq (Known \cup Reach(p)) \cap used
    BY <2>1, CallFields DEF Drawn, DrawnBy, Sane, Known, Reach, ReachOf, TypeOK
  <2>6. /\ call' \in [Clients -> Call] /\ Drawn'
        /\ Fresh' /\ \A q \in Clients : Sane(call'[q])
    <3> HIDE DEF r
    <3> QED
      BY <2>1, <2>2, <2>3, <2>5, CallMoves
  <2>7. TypeOK'
    BY <2>1, <2>4, <2>6, CallFields DEF TypeOK, Drawn, DrawnBy, IndexOK, Call, Sane
  <2>8. RevokedStaysRevoked'
    <3>1. live' = live /\ revoked' = revoked
      OBVIOUS
    <3> QED
      BY <3>1 DEF RevokedStaysRevoked
  <2> QED
    BY <2>6, <2>7, <2>8
<1>19. ASSUME NEW p \in Clients, NEW s \in Ids, ResolveExpired(p, s) PROVE IInv'
  <2> DEFINE r == [Idle EXCEPT !.at = "get", !.sid = s]
  <2> USE <1>19 DEF ResolveExpired
  <2>1. call[p] \in Call /\ Goto(p, r)
    BY DEF TypeOK, Call
  <2>2. r \in Call
    BY <2>1, CallUpdates, CallFields, IdleCall, LabelNames, Lifetimes DEF TypeOK
  <2>3. Follows(p, r)
    BY <2>1 DEF Follows, Sane, DrawnBy, Drawn, Known, Reach, ReachOf, Target,
       TargetOf, Call, Idle, TypeOK
  <2>4. IndexOK'
    BY DEF IndexOK, TypeOK, Persistent
  <2>5. used' = used /\ Known' \subseteq (Known \cup Reach(p)) \cap used
    BY <2>1, CallFields DEF Drawn, DrawnBy, Sane, Known, Reach, ReachOf, TypeOK
  <2>6. /\ call' \in [Clients -> Call] /\ Drawn'
        /\ Fresh' /\ \A q \in Clients : Sane(call'[q])
    <3> HIDE DEF r
    <3> QED
      BY <2>1, <2>2, <2>3, <2>5, CallMoves
  <2>7. TypeOK'
    BY <2>1, <2>4, <2>6, CallFields DEF TypeOK, Drawn, DrawnBy, IndexOK, Call, Sane
  <2>8. RevokedStaysRevoked'
    <3>1. live' = live /\ revoked' = revoked
      OBVIOUS
    <3> QED
      BY <3>1 DEF RevokedStaysRevoked
  <2> QED
    BY <2>6, <2>7, <2>8
<1>20. ASSUME NEW p \in Clients, NEW i \in Ids, GetMember(p, i) PROVE IInv'
  <2> DEFINE r == IF live[i] > 0 /\ i \notin expired
                  THEN [call[p] EXCEPT !.todo = @ \ {i}]
                  ELSE [call[p] EXCEPT !.todo = @ \ {i}, !.seen = @ \cup {i},
                                       !.next = IF @ = i THEN None ELSE @]
  <2> USE <1>20 DEF GetMember
  <2>1. call[p] \in Call /\ Goto(p, r)
    BY DEF TypeOK, Call
  <2>2. r \in Call
    BY <2>1 DEF Call
  <2>3. Follows(p, r)
    BY <2>1 DEF Follows, Sane, DrawnBy, Drawn, Known, Reach, ReachOf, Target,
       TargetOf, Call, Idle, TypeOK
  <2>4. IndexOK'
    BY DEF IndexOK, TypeOK, Persistent
  <2>5. used' = used /\ Known' \subseteq (Known \cup Reach(p)) \cap used
    BY <2>1, CallFields DEF Drawn, DrawnBy, Sane, Known, Reach, ReachOf, TypeOK
  <2>6. /\ call' \in [Clients -> Call] /\ Drawn'
        /\ Fresh' /\ \A q \in Clients : Sane(call'[q])
    <3> HIDE DEF r
    <3> QED
      BY <2>1, <2>2, <2>3, <2>5, CallMoves
  <2>7. TypeOK'
    BY <2>1, <2>4, <2>6, CallFields DEF TypeOK, Drawn, DrawnBy, IndexOK, Call, Sane
  <2>8. RevokedStaysRevoked'
    <3>1. live' = live /\ revoked' = revoked
      OBVIOUS
    <3> QED
      BY <3>1 DEF RevokedStaysRevoked
  <2> QED
    BY <2>6, <2>7, <2>8
<1>21. CASE UNCHANGED vars
  BY <1>21 DEF vars, TypeOK, Drawn, DrawnBy, Known, Fresh, Target, TargetOf, Reach,
               ReachOf, RevokedStaysRevoked, Sane
<1> QED
  BY <1>1, <1>2, <1>3, <1>4, <1>5, <1>6, <1>7, <1>8, <1>9, <1>10, <1>11, <1>12, <1>13,
     <1>14, <1>15, <1>16, <1>17, <1>18, <1>19, <1>20, <1>21 DEF Next

(* The invariant of every execution.                                       *)
THEOREM Invariance == Spec => []IInv
<1> QED
  BY InitIInv, NextIInv, PTL DEF Spec

(* Every variable keeps its domain, whatever calls run at once and         *)
(* wherever they are cut short.                                            *)
THEOREM Typing == Spec => []TypeOK
<1>1. IInv => TypeOK
  BY DEF IInv
<1> QED
  BY <1>1, Invariance, PTL

(* A session that was revoked is never written again: every command that   *)
(* writes a session's key is the SET of a login, of an id nobody else      *)
(* knows yet, or a refresh that finds the key there.                       *)
THEOREM RevocationHolds == Spec => []RevokedStaysRevoked
<1>1. IInv => RevokedStaysRevoked
  BY DEF IInv
<1> QED
  BY <1>1, Invariance, PTL

-----------------------------------------------------------------------------
(* What revoke_all reaches                                                 *)

(* A session that has ended, is excused, or is about to be deleted.        *)
Ended(s) == \/ live[s] = 0 \/ s \in excused
            \/ \E p \in Clients : call[p].at = "del" /\ call[p].sid = s

(* The sessions a client has a cookie for, or is about to.                 *)
Named(s) == \/ s \in issued
            \/ \E p \in Clients : call[p].at \in {"expire", "bump", "touch"} /\ call[p].sid = s

(* They are in the index, or it no longer matters.                         *)
Listed == \A s \in Ids : Named(s) => s \in index \/ Ended(s)

(* The index outlives its members, but for one whose EXPIRE is to come.    *)
InTime == \A s \in index :
    \/ live[s] <= indexTtl \/ s \in excused
    \/ \E p \in Clients : call[p].at \in {"expire", "bump"} /\ call[p].sid = s

(* What a revoke_all or a pruning under way has read still holds.          *)
ReadIn(c) ==
    /\ c.due \subseteq issued
    /\ c.at = "delIndex" => c.seen \subseteq revoked
    /\ c.at = "list" => \A s \in c.seen : live[s] = 0 \/ s \in excused
    /\ c.at \in {"delMembers", "delIndex"} => \A s \in c.due : s \in c.seen \/ Ended(s)

RInv == /\ Listed /\ InTime /\ \A p \in Clients : ReadIn(call[p])
        /\ swept \subseteq issued /\ \A s \in swept : Ended(s)

(* A command of p: what it must respect for RInv to stay.                  *)
Respects(p, r) ==
    /\ excused \subseteq excused' /\ revoked \subseteq revoked' /\ issued \subseteq issued'
    /\ \A s \in Ids : live[s] = 0 => live'[s] = 0 \/ s = Target(p)
    /\ call[p].at = "del" => live'[call[p].sid] = 0 \/ call[p].sid \in excused'
    /\ \A s \in index : \/ s \in index' \/ live'[s] = 0 \/ s \in excused'
                        \/ r.at = "del" /\ r.sid = s
    /\ \A s \in index' :
          \/ /\ s \in index /\ live'[s] = live[s] /\ indexTtl' = indexTtl
             /\ call[p].at \in {"expire", "bump"} /\ call[p].sid = s
                => s \in excused' \/ (r.at \in {"expire", "bump"} /\ r.sid = s)
          \/ live'[s] <= indexTtl' \/ s \in excused'
          \/ r.at \in {"expire", "bump"} /\ r.sid = s
    /\ \A s \in Ids : \/ s \in issued' \ issued
                      \/ r.at \in {"expire", "bump", "touch"} /\ r.sid = s
                      => Named(s) \/ s \in index' \/ live'[s] = 0
    /\ r.due \subseteq issued
    /\ r.at = "delIndex" => r.seen \subseteq revoked'
    /\ r.at = "list" => \A s \in r.seen : live'[s] = 0 \/ s \in excused'
    /\ r.at \in {"delMembers", "delIndex"} => \A s \in r.due : s \in r.seen \/ Ended(s)
    /\ \A s \in swept' : s \in swept \/ (s \in issued /\ Ended(s))

LEMMA CommandKeeps ==
    ASSUME IInv, RInv, NEW p \in Clients, NEW r \in Call, Goto(p, r), Respects(p, r)
    PROVE  RInv'
<1>1. /\ call'[p] = r /\ \A q \in Clients : q # p => call'[q] = call[q]
      /\ \A q \in Clients : call[q] \in Call
  BY DEF IInv, TypeOK, Call, Goto
<1>2. /\ index \subseteq Ids /\ issued \subseteq Ids /\ swept \subseteq issued
      /\ \A q \in Clients : call[q].seen \subseteq Ids /\ call[q].due \subseteq issued
  BY <1>1, CallFields DEF IInv, TypeOK, RInv, ReadIn
<1>3. ASSUME NEW s \in Ids, Ended(s), s # Target(p) PROVE Ended(s)'
  BY <1>1, <1>3 DEF Ended, Respects
<1>4. ASSUME NEW s \in Ids, Named(s) PROVE s # Target(p)
  BY <1>4, SessionsAssumption DEF IInv, Fresh, Known, Named, Reach, ReachOf
<1>5. \A s \in issued : s # Target(p)
  BY <1>2, <1>4 DEF Named
<1>6. Listed'
  <2> SUFFICES ASSUME NEW s \in Ids, Named(s)' PROVE (s \in index \/ Ended(s))'
    BY DEF Listed
  <2>1. Named(s) \/ s \in index' \/ live'[s] = 0
    BY <1>1 DEF Named, Respects
  <2>2. CASE Named(s) /\ Ended(s)
    BY <1>3, <1>4, <2>2
  <2>3. CASE Named(s) /\ s \in index
    BY <1>1, <2>3 DEF Respects, Ended
  <2>4. CASE s \in index' \/ live'[s] = 0
    BY <2>4 DEF Ended
  <2> QED
    BY <2>1, <2>2, <2>3, <2>4 DEF RInv, Listed
<1>7. InTime'
  <2> SUFFICES ASSUME NEW s \in index'
               PROVE  \/ live'[s] <= indexTtl' \/ s \in excused'
                      \/ \E q \in Clients : call'[q].at \in {"expire", "bump"} /\ call'[q].sid = s
    BY DEF InTime
  <2>1. CASE \/ live'[s] <= indexTtl' \/ s \in excused'
             \/ r.at \in {"expire", "bump"} /\ r.sid = s
    BY <1>1, <2>1
  <2>2. CASE /\ s \in index /\ live'[s] = live[s] /\ indexTtl' = indexTtl
             /\ call[p].at \in {"expire", "bump"} /\ call[p].sid = s
                => s \in excused' \/ (r.at \in {"expire", "bump"} /\ r.sid = s)
    <3>1. \/ live[s] <= indexTtl \/ s \in excused
          \/ \E q \in Clients : call[q].at \in {"expire", "bump"} /\ call[q].sid = s
      BY <2>2 DEF RInv, InTime
    <3>2. ASSUME NEW q \in Clients, call[q].at \in {"expire", "bump"} /\ call[q].sid = s
          PROVE  \/ s \in excused'
                 \/ \E o \in Clients : call'[o].at \in {"expire", "bump"} /\ call'[o].sid = s
      BY <1>1, <2>2, <3>2
    <3> QED
      BY <2>2, <3>1, <3>2 DEF Respects
  <2> QED
    BY <2>1, <2>2 DEF Respects
<1>8. ASSUME NEW q \in Clients PROVE ReadIn(call[q])'
  <2>1. CASE q = p
    BY <1>1, <1>2, <1>3, <1>5, <2>1 DEF ReadIn, Respects
  <2>2. CASE q # p
    <3>1. ReadIn(call[q]) /\ call'[q] = call[q]
      BY <1>1, <2>2 DEF RInv
    <3>2. \A s \in call[q].seen : s # Target(p) /\ s \in Ids
      BY <1>2, SessionsAssumption DEF IInv, Fresh, Reach, ReachOf
    <3> QED
      BY <1>2, <1>3, <1>5, <3>1, <3>2 DEF ReadIn, Respects
  <2> QED
    BY <2>1, <2>2
<1>9. swept' \subseteq issued' /\ \A s \in swept' : Ended(s)'
  BY <1>2, <1>3, <1>5 DEF RInv, Respects
<1> QED
  BY <1>6, <1>7, <1>8, <1>9 DEF RInv

LEMMA InitRInv == Init => RInv
BY DEF Init, RInv, Listed, Named, InTime, ReadIn, Idle

LEMMA NextRInv == IInv /\ IInv' /\ RInv /\ [Next]_vars => RInv'
<1> SUFFICES ASSUME IInv, IInv', RInv, [Next]_vars PROVE RInv'
  OBVIOUS
<1> USE SessionsAssumption DEF redisVars, historyVars
<1>a. /\ TypeOK /\ RevokedStaysRevoked
      /\ \A p \in Clients : call[p] \in Call /\ call'[p] \in Call /\ ReadIn(call[p])
  BY DEF IInv, TypeOK, Call, RInv
<1>1. ASSUME Tick PROVE RInv'
  <2> USE <1>1 DEF Tick
  <2>1. /\ \A s \in Ids : /\ live[s] \in Nat /\ live'[s] = Less(live[s])
                          /\ live[s] = 0 => live'[s] = 0
                          /\ live'[s] <= live[s]
        /\ index \subseteq Ids /\ swept \subseteq Ids /\ issued \subseteq Ids
    BY <1>a DEF TypeOK, Less
  <2>2. \A p \in Clients : /\ call'[p].at = call[p].at /\ call'[p].sid = call[p].sid
                           /\ call'[p].seen = call[p].seen /\ call'[p].due = call[p].due
    BY <1>a DEF Call
  <2>3. \A s \in Ids : /\ Ended(s) => Ended(s)'
                       /\ Named(s)' => Named(s)
    BY <2>1, <2>2 DEF Ended, Named
  <2>4. \A p \in Clients : call[p].due \subseteq Ids /\ call[p].seen \subseteq Ids
    BY <1>a, CallFields
  <2>5. \A p \in Clients : ReadIn(call[p])'
    BY <1>a, <2>1, <2>2, <2>3, <2>4 DEF ReadIn
  <2>6. \A s \in index : s \in index' \/ Ended(s)'
    <3> SUFFICES ASSUME NEW s \in index, s \notin index' PROVE Ended(s)'
      OBVIOUS
    <3>1. indexTtl = 1
      OBVIOUS
    <3>2. \/ live[s] <= 1 \/ s \in excused
          \/ \E p \in Clients : call[p].at \in {"expire", "bump"} /\ call[p].sid = s
      BY <3>1 DEF RInv, InTime
    <3>3. live[s] <= 1 => live'[s] = 0
      BY <2>1 DEF Less
    <3> QED
      BY <3>1, <3>2, <3>3 DEF Ended
  <2>7. Listed'
    BY <2>3, <2>6 DEF RInv, Listed
  <2>8. InTime'
    <3> SUFFICES ASSUME NEW s \in index'
                 PROVE  \/ live'[s] <= indexTtl' \/ s \in excused'
                        \/ \E p \in Clients : call'[p].at \in {"expire", "bump"} /\ call'[p].sid = s
      BY DEF InTime
    <3>1. s \in index
      OBVIOUS
    <3>2. \/ live[s] <= indexTtl \/ s \in excused
          \/ \E p \in Clients : call[p].at \in {"expire", "bump"} /\ call[p].sid = s
      BY <3>1 DEF RInv, InTime
    <3>3. live[s] <= indexTtl => live'[s] <= indexTtl'
      BY <1>a, <2>1, <3>1 DEF Less, TypeOK, Persistent
    <3> QED
      BY <2>2, <3>2, <3>3
  <2>9. swept' \subseteq issued' /\ \A s \in swept' : Ended(s)'
    BY <2>1, <2>3 DEF RInv
  <2> QED
    BY <2>5, <2>7, <2>8, <2>9 DEF RInv
<1>2. ASSUME NEW p \in Clients, NEW s \in Ids, NEW previous \in Ids \cup {None},
             Login(p, s, previous)
      PROVE  RInv'
  <2> DEFINE r == IF previous = None THEN [Idle EXCEPT !.at = "set", !.sid = s]
                  ELSE [Idle EXCEPT !.at = "get", !.sid = previous, !.next = s]
  <2> USE <1>2 DEF Login
  <2>1. Goto(p, r) /\ r \in Call
    BY <1>a DEF Goto, TypeOK
  <2>2. Respects(p, r)
    BY <1>a, CallFields DEF Respects, ReadIn, TypeOK, Named, Target, TargetOf, Idle, Call
  <2> HIDE DEF r
  <2> QED
    BY <2>1, <2>2, CommandKeeps
<1>3. ASSUME NEW p \in Clients, Set(p) PROVE RInv'
  <2> DEFINE r == [call[p] EXCEPT !.at = "sadd", !.ttl = TTL]
  <2> USE <1>3 DEF Set
  <2>1. Goto(p, r) /\ r \in Call
    BY <1>a DEF Goto, TypeOK
  <2>0. call[p].sid \in Ids /\ Target(p) = call[p].sid /\ call[p].sid \notin index
    BY <1>a, CallFields DEF IInv, Sane, Fresh, Known, Target, TargetOf
  <2>2. Respects(p, r)
    BY <1>a, CallFields, <2>0 DEF Respects, ReadIn, TypeOK, Named,
       Target, TargetOf, Idle, Call
  <2> HIDE DEF r
  <2> QED
    BY <2>1, <2>2, CommandKeeps
<1>4. ASSUME NEW p \in Clients, SetIndex(p) PROVE RInv'
  <2> DEFINE r == [call[p] EXCEPT !.at = "expire"]
  <2> USE <1>4 DEF SetIndex
  <2>1. Goto(p, r) /\ r \in Call
    BY <1>a DEF Goto, TypeOK
  <2>2. Respects(p, r)
    BY <1>a, CallFields DEF Respects, ReadIn, TypeOK, Named, Target, TargetOf, Idle, Call, SAdd
  <2> HIDE DEF r
  <2> QED
    BY <2>1, <2>2, CommandKeeps
<1>5. ASSUME NEW p \in Clients, SetIndexTtl(p) PROVE RInv'
  <2> DEFINE r == Idle
  <2> USE <1>5 DEF SetIndexTtl
  <2>1. Goto(p, r) /\ r \in Call
    BY <1>a DEF Goto, TypeOK
  <2>2. Respects(p, r)
    BY <1>a, CallFields DEF Respects, ReadIn, TypeOK, Named, Target, TargetOf, Idle, Call, Expire
  <2> HIDE DEF r
  <2> QED
    BY <2>1, <2>2, CommandKeeps
<1>6. ASSUME NEW p \in Clients, NEW s \in Ids, Resolve(p, s) PROVE RInv'
  <2> DEFINE r == [Idle EXCEPT !.at = "touch", !.sid = s,
                              !.ttl = IF sliding THEN TTL ELSE live[s]]
  <2> USE <1>6 DEF Resolve
  <2>1. Goto(p, r) /\ r \in Call
    BY <1>a DEF Goto, TypeOK
  <2>2. Respects(p, r)
    BY <1>a, CallFields DEF Respects, ReadIn, TypeOK, Named, Target, TargetOf, Idle, Call
  <2> HIDE DEF r
  <2> QED
    BY <2>1, <2>2, CommandKeeps
<1>7. ASSUME NEW p \in Clients, NEW s \in Ids, Revoke(p, s) PROVE RInv'
  <2> DEFINE r == [Idle EXCEPT !.at = "get", !.sid = s]
  <2> USE <1>7 DEF Revoke
  <2>1. Goto(p, r) /\ r \in Call
    BY <1>a DEF Goto, TypeOK
  <2>2. Respects(p, r)
    BY <1>a, CallFields DEF Respects, ReadIn, TypeOK, Named, Target, TargetOf, Idle, Call
  <2> HIDE DEF r
  <2> QED
    BY <2>1, <2>2, CommandKeeps
<1>8. ASSUME NEW p \in Clients, Touch(p) PROVE RInv'
  <2> DEFINE r == [call[p] EXCEPT !.at = "bump", !.ttl = AtLeastOne(call[p].ttl)]
  <2> USE <1>8 DEF Touch, Bump, Writes
  <2>1. Goto(p, r) /\ r \in Call
    BY <1>a DEF Goto, TypeOK
  <2>2. Respects(p, r)
    BY <1>a, CallFields DEF Respects, ReadIn, TypeOK, Named, Target, TargetOf, Idle, Call
  <2> HIDE DEF r
  <2> QED
    BY <2>1, <2>2, CommandKeeps
<1>9. ASSUME NEW p \in Clients, TouchGone(p) PROVE RInv'
  <2> DEFINE r == Idle
  <2> USE <1>9 DEF TouchGone, Writes
  <2>1. Goto(p, r) /\ r \in Call
    BY <1>a DEF Goto, TypeOK
  <2>2. Respects(p, r)
    BY <1>a, CallFields DEF Respects, ReadIn, TypeOK, Named, Target, TargetOf, Idle, Call
  <2> HIDE DEF r
  <2> QED
    BY <2>1, <2>2, CommandKeeps
<1>10. ASSUME NEW p \in Clients, DeleteGet(p) PROVE RInv'
  <2> DEFINE r == [call[p] EXCEPT !.at = IF live[call[p].sid] > 0 THEN "srem" ELSE "del"]
  <2> USE <1>10 DEF DeleteGet
  <2>1. Goto(p, r) /\ r \in Call
    BY <1>a DEF Goto, TypeOK
  <2>2. Respects(p, r)
    BY <1>a, CallFields DEF Respects, ReadIn, TypeOK, Named, Target, TargetOf, Idle, Call
  <2> HIDE DEF r
  <2> QED
    BY <2>1, <2>2, CommandKeeps
<1>11. ASSUME NEW p \in Clients, DeleteFromIndex(p) PROVE RInv'
  <2> DEFINE r == [call[p] EXCEPT !.at = "del"]
  <2> USE <1>11 DEF DeleteFromIndex
  <2>1. Goto(p, r) /\ r \in Call
    BY <1>a DEF Goto, TypeOK
  <2>2. Respects(p, r)
    BY <1>a, CallFields DEF Respects, ReadIn, TypeOK, Named, Target, TargetOf, Idle, Call, SRem
  <2> HIDE DEF r
  <2> QED
    BY <2>1, <2>2, CommandKeeps
<1>12. ASSUME NEW p \in Clients, DeleteKey(p) PROVE RInv'
  <2> DEFINE r == IF call[p].next = None THEN Idle
                  ELSE [Idle EXCEPT !.at = "set", !.sid = call[p].next]
  <2> USE <1>12 DEF DeleteKey
  <2>1. Goto(p, r) /\ r \in Call
    BY <1>a DEF Goto, TypeOK
  <2>0. call[p].sid \in Ids
    BY <1>a, CallFields DEF IInv, Sane
  <2>2. Respects(p, r)
    BY <1>a, CallFields, <2>0 DEF Respects, ReadIn, TypeOK, Named,
       Target, TargetOf, Idle, Call
  <2> HIDE DEF r
  <2> QED
    BY <2>1, <2>2, CommandKeeps
<1>13. ASSUME NEW p \in Clients, RevokeAll(p) PROVE RInv'
  <2> DEFINE r == [Idle EXCEPT !.at = "delMembers", !.seen = index,
                              !.due = {s \in issued : live[s] > 0}]
  <2> USE <1>13 DEF RevokeAll
  <2>1. Goto(p, r) /\ r \in Call
    BY <1>a DEF Goto, TypeOK
  <2>0. \A s \in issued : s \in index \/ Ended(s)
    BY <1>a DEF RInv, Listed, Named, TypeOK
  <2>2. Respects(p, r)
    BY <1>a, CallFields, <2>0 DEF Respects, ReadIn, TypeOK, Named,
       Target, TargetOf, Idle, Call
  <2> HIDE DEF r
  <2> QED
    BY <2>1, <2>2, CommandKeeps
<1>14. ASSUME NEW p \in Clients, RevokeMembers(p) PROVE RInv'
  <2> DEFINE r == [call[p] EXCEPT !.at = "delIndex"]
  <2> USE <1>14 DEF RevokeMembers
  <2>1. Goto(p, r) /\ r \in Call
    BY <1>a DEF Goto, TypeOK
  <2>2. Respects(p, r)
    BY <1>a, CallFields DEF Respects, ReadIn, TypeOK, Named, Target, TargetOf, Idle, Call
  <2> HIDE DEF r
  <2> QED
    BY <2>1, <2>2, CommandKeeps
<1>15. ASSUME NEW p \in Clients, RevokeIndex(p) PROVE RInv'
  <2> DEFINE r == Idle
  <2> USE <1>15 DEF RevokeIndex
  <2>1. Goto(p, r) /\ r \in Call
    BY <1>a DEF Goto, TypeOK
  <2>0. \A s \in call[p].seen : live[s] = 0
    BY <1>a DEF ReadIn, RevokedStaysRevoked
  <2>3. \A s \in call[p].due : s \in issued /\ Ended(s)
    BY <1>a, <2>0 DEF ReadIn, Ended
  <2>2. Respects(p, r)
    BY <1>a, CallFields, <2>0, <2>3 DEF Respects, ReadIn, TypeOK, Named,
       Target, TargetOf, Idle, Call
  <2> HIDE DEF r
  <2> QED
    BY <2>1, <2>2, CommandKeeps
<1>16. ASSUME NEW p \in Clients, NEW s \in Ids \cup {None}, List(p, s) PROVE RInv'
  <2> DEFINE r == [Idle EXCEPT !.at = "list", !.todo = index, !.next = s]
  <2> USE <1>16 DEF List
  <2>1. Goto(p, r) /\ r \in Call
    BY <1>a DEF Goto, TypeOK
  <2>2. Respects(p, r)
    BY <1>a, CallFields DEF Respects, ReadIn, TypeOK, Named, Target, TargetOf, Idle, Call
  <2> HIDE DEF r
  <2> QED
    BY <2>1, <2>2, CommandKeeps
<1>17. ASSUME NEW p \in Clients, Prune(p) PROVE RInv'
  <2> DEFINE r == IF call[p].next = None THEN Idle
                  ELSE [Idle EXCEPT !.at = "get", !.sid = call[p].next]
  <2> USE <1>17 DEF Prune, DeleteFound
  <2>1. Goto(p, r) /\ r \in Call
    BY <1>a DEF Goto, TypeOK
  <2>2. Respects(p, r)
    BY <1>a, CallFields DEF Respects, ReadIn, TypeOK, Named, Target, TargetOf, Idle, Call, SRem
  <2> HIDE DEF r
  <2> QED
    BY <2>1, <2>2, CommandKeeps
<1>18. ASSUME NEW p \in Clients, Crash(p) PROVE RInv'
  <2> DEFINE r == Idle
  <2> USE <1>18 DEF Crash
  <2>1. Goto(p, r) /\ r \in Call
    BY <1>a DEF Goto, TypeOK
  <2>0. call[p].at \in {"expire", "bump", "touch", "del"} => call[p].sid \in excused'
    BY DEF IInv, Sane
  <2>2. Respects(p, r)
    BY <1>a, CallFields, <2>0 DEF Respects, ReadIn, TypeOK, Named,
       Target, TargetOf, Idle, Call
  <2> HIDE DEF r
  <2> QED
    BY <2>1, <2>2, CommandKeeps
<1>19. ASSUME NEW p \in Clients, NEW s \in Ids, ResolveExpired(p, s) PROVE RInv'
  <2> DEFINE r == [Idle EXCEPT !.at = "get", !.sid = s]
  <2> USE <1>19 DEF ResolveExpired
  <2>1. Goto(p, r) /\ r \in Call
    BY <1>a DEF Goto, TypeOK
  <2>2. Respects(p, r)
    BY <1>a, CallFields DEF Respects, ReadIn, TypeOK, Named, Target, TargetOf, Idle, Call
  <2> HIDE DEF r
  <2> QED
    BY <2>1, <2>2, CommandKeeps
<1>20. ASSUME NEW p \in Clients, NEW i \in Ids, GetMember(p, i) PROVE RInv'
  <2> DEFINE r == IF live[i] > 0 /\ i \notin expired
                  THEN [call[p] EXCEPT !.todo = @ \ {i}]
                  ELSE [call[p] EXCEPT !.todo = @ \ {i}, !.seen = @ \cup {i},
                                       !.next = IF @ = i THEN None ELSE @]
  <2> USE <1>20 DEF GetMember
  <2>1. Goto(p, r) /\ r \in Call
    BY <1>a DEF Goto, TypeOK
  <2>2. Respects(p, r)
    BY <1>a, CallFields DEF Respects, ReadIn, TypeOK, Named, Target, TargetOf, Call
  <2> HIDE DEF r
  <2> QED
    BY <2>1, <2>2, CommandKeeps
<1>21. CASE UNCHANGED vars
  BY <1>21 DEF vars, RInv, Listed, Named, Ended, InTime, ReadIn
<1> QED
  BY <1>1, <1>2, <1>3, <1>4, <1>5, <1>6, <1>7, <1>8, <1>9, <1>10, <1>11, <1>12, <1>13,
     <1>14, <1>15, <1>16, <1>17, <1>18, <1>19, <1>20, <1>21 DEF Next

(* revoke_all ends every session logged in before it began, or there is a  *)
(* cause: a refresh of the index shortened it, it expired inside a set, a  *)
(* login overlapped another revoke_all, or a call was cut short.  A member *)
(* the SMEMBERS missed is one another call has taken out to delete.        *)
THEOREM RevocationReaches == Spec => []RevokeAllReaches
<1>1. RInv => RevokeAllReaches
  BY DEF RInv, RevokeAllReaches, Ended
<1>2. Spec => []RInv
  BY InitRInv, NextRInv, Invariance, PTL DEF Spec
<1> QED
  BY <1>1, <1>2, PTL
=============================================================================
