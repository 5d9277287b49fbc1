------------------------------ MODULE Sessions ------------------------------
(***************************************************************************)
(* sessions/store.py (RedisSessionStore) and sessions/service.py           *)
(* (SessionAuth): the sessions of one user, a key per session and one set, *)
(* the user index, that revoke_all and list_sessions go through.  Every    *)
(* Redis command is a step of its own: a call is a sequence of them, and   *)
(* other replicas' commands fall in between.                               *)
(*                                                                         *)
(* Lifetimes are what is left of them, in units of Tick, on one clock.  A  *)
(* session's key expires when its expires_at does, but for one written     *)
(* past it, which the clamp of _ttl_seconds keeps for one unit (expired).  *)
(* Ids are random and never reused.                                        *)
(***************************************************************************)
EXTENDS Integers, FiniteSets

CONSTANTS
    Ids,            \* session ids (hashes)
    Clients,        \* concurrent requests, one SessionAuth call each at a time
    TTL,            \* SESSION_TTL_SECONDS
    None,
    MaxCrashes      \* bound: calls cut short

ASSUME SessionsAssumption ==
    TTL \in Nat \ {0} /\ MaxCrashes \in Nat /\ None \notin Ids

VARIABLES
    sliding,    \* SESSION_SLIDING, fixed
    live,       \* live[s]: lifetime left of the session's key, 0: no such key
    expired,    \* sessions whose key is there past their expires_at
    index,      \* members of the user index, {}: no such key
    indexTtl,   \* lifetime left of the index, Persistent when it has none
    call,       \* call[p]: the next command of p's call, and what p read
    used,       \* ids drawn so far
    issued,     \* sessions whose login returned: the client has the cookie
    crashes,
    revoked,    \* history: sessions a revoke or a revoke_all deleted
    swept,      \* history: sessions logged in before a finished revoke_all
    excused     \* history: sessions whose index entry may be missing, by cause

redisVars   == <<live, expired, index, indexTtl>>
historyVars == <<revoked, swept, excused>>
vars        == <<sliding, redisVars, call, used, issued, crashes, historyVars>>

Persistent == TTL + 1
Idle == [at |-> "idle", sid |-> None, ttl |-> 0, todo |-> {}, seen |-> {}, due |-> {},
         next |-> None]

AtLeastOneDropped(n) == n   \* mutant
AtLeastOne(n) == IF n < 1 THEN 1 ELSE n
Less(n)       == IF n = 0 THEN 0 ELSE n - 1

(* Redis commands on the index; an emptied set is no key.                  *)
SAdd(s) == /\ index' = index \cup {s}
           /\ indexTtl' = IF index = {} THEN Persistent ELSE indexTtl
SRem(S) == /\ index' = index \ S
           /\ indexTtl' = IF index \subseteq S THEN 0 ELSE indexTtl
Expire(t) == /\ indexTtl' = IF index = {} THEN 0 ELSE t
             /\ excused' = excused \cup {s \in index : live[s] > t}
             /\ UNCHANGED index

Goto(p, record) == call' = [call EXCEPT ![p] = record]

Init ==
    /\ sliding \in BOOLEAN
    /\ live = [s \in Ids |-> 0] /\ expired = {} /\ index = {} /\ indexTtl = 0
    /\ call = [p \in Clients |-> Idle] /\ used = {} /\ issued = {} /\ crashes = 0
    /\ revoked = {} /\ swept = {} /\ excused = {}

(* Time passes: keys expire.  An index that expires while a SADD or a      *)
(* refresh has not reached its EXPIRE takes that session along.            *)
Tick ==
    /\ live' = [s \in Ids |-> Less(live[s])]
    /\ expired' = {}
    /\ indexTtl' = IF indexTtl = Persistent THEN Persistent ELSE Less(indexTtl)
    /\ index' = IF indexTtl = 1 THEN {} ELSE index
    /\ call' = [p \in Clients |-> IF call[p].at = "touch"
                                  THEN [call[p] EXCEPT !.ttl = Less(@)] ELSE call[p]]
    /\ excused' = IF indexTtl = 1
                  THEN excused \cup {call[p].sid : p \in {q \in Clients :
                                                  call[q].at \in {"expire", "bump"}}}
                  ELSE excused
    /\ UNCHANGED <<sliding, used, issued, crashes, revoked, swept>>

-----------------------------------------------------------------------------
(* login: the previous session is revoked first when the request carries   *)
(* one and rotation is on; then set: SET, SADD, EXPIRE.                    *)
Login(p, s, previous) ==
    /\ call[p].at = "idle" /\ s \notin used /\ previous \in issued \cup {None}
    /\ used' = used \cup {s}
    /\ Goto(p, IF previous = None THEN [Idle EXCEPT !.at = "set", !.sid = s]
               ELSE [Idle EXCEPT !.at = "get", !.sid = previous, !.next = s])
    /\ UNCHANGED <<sliding, redisVars, issued, crashes, historyVars>>

Set(p) ==
    /\ call[p].at = "set"
    /\ live' = [live EXCEPT ![call[p].sid] = TTL]
    /\ expired' = expired \ {call[p].sid}
    /\ Goto(p, [call[p] EXCEPT !.at = "sadd", !.ttl = TTL])
    /\ UNCHANGED <<sliding, index, indexTtl, used, issued, crashes, historyVars>>

SetIndex(p) ==
    /\ call[p].at = "sadd"
    /\ SAdd(call[p].sid)
    /\ Goto(p, [call[p] EXCEPT !.at = "expire"])
    /\ UNCHANGED <<sliding, live, expired, used, issued, crashes, historyVars>>

(* The last command of set and of touch.                                   *)
SetIndexTtl(p) ==
    /\ call[p].at \in {"expire", "bump"}
    /\ Expire(call[p].ttl)
    /\ issued' = issued \cup {call[p].sid}
    /\ Goto(p, Idle)
    /\ UNCHANGED <<sliding, live, expired, used, crashes, revoked, swept>>

-----------------------------------------------------------------------------
(* resolve: get, then touch with the refreshed expiry.                     *)
Resolve(p, s) ==
    /\ call[p].at = "idle" /\ s \in issued /\ live[s] > 0 /\ s \notin expired
    /\ Goto(p, [Idle EXCEPT !.at = "touch", !.sid = s,
                            !.ttl = IF sliding THEN TTL ELSE live[s]])
    /\ UNCHANGED <<sliding, redisVars, used, issued, crashes, historyVars>>

(* get of a key past its expires_at deletes it.                            *)
ResolveExpired(p, s) ==
    /\ call[p].at = "idle" /\ s \in issued /\ s \in expired
    /\ Goto(p, [Idle EXCEPT !.at = "get", !.sid = s])
    /\ UNCHANGED <<sliding, redisVars, used, issued, crashes, historyVars>>

(* SET ... XX: only a key that still exists is written; then the EXPIRE.   *)
WritesAny(s) == TRUE   \* mutant
Writes(s)    == live[s] > 0
BumpSkipped(c, t) == Idle   \* mutant
Bump(c, t) == [c EXCEPT !.at = "bump", !.ttl = t]

Touch(p) ==
    /\ call[p].at = "touch" /\ Writes(call[p].sid)
    /\ LET ttl == AtLeastOne(call[p].ttl)
       IN  /\ live' = [live EXCEPT ![call[p].sid] = ttl]
           /\ Goto(p, Bump(call[p], ttl))
    /\ expired' = IF call[p].ttl = 0 THEN expired \cup {call[p].sid}
                                     ELSE expired \ {call[p].sid}
    /\ UNCHANGED <<sliding, index, indexTtl, used, issued, crashes, historyVars>>

TouchGone(p) ==
    /\ call[p].at = "touch" /\ ~Writes(call[p].sid)
    /\ Goto(p, Idle)
    /\ UNCHANGED <<sliding, redisVars, used, issued, crashes, historyVars>>

-----------------------------------------------------------------------------
(* revoke: delete is GET, SREM when the key was there, DEL.                *)
Revoke(p, s) ==
    /\ call[p].at = "idle" /\ s \in issued
    /\ Goto(p, [Idle EXCEPT !.at = "get", !.sid = s])
    /\ UNCHANGED <<sliding, redisVars, used, issued, crashes, historyVars>>

DeleteGet(p) ==
    /\ call[p].at = "get"
    /\ Goto(p, [call[p] EXCEPT !.at = IF live[call[p].sid] > 0 THEN "srem" ELSE "del"])
    /\ UNCHANGED <<sliding, redisVars, used, issued, crashes, historyVars>>

DeleteFromIndex(p) ==
    /\ call[p].at = "srem"
    /\ SRem({call[p].sid})
    /\ Goto(p, [call[p] EXCEPT !.at = "del"])
    /\ UNCHANGED <<sliding, live, expired, used, issued, crashes, historyVars>>

DeleteKey(p) ==
    /\ call[p].at = "del"
    /\ live' = [live EXCEPT ![call[p].sid] = 0]
    /\ expired' = expired \ {call[p].sid}
    /\ revoked' = revoked \cup {call[p].sid}
    /\ Goto(p, IF call[p].next = None THEN Idle
               ELSE [Idle EXCEPT !.at = "set", !.sid = call[p].next])
    /\ UNCHANGED <<sliding, index, indexTtl, used, issued, crashes, swept, excused>>

-----------------------------------------------------------------------------
(* revoke_all: SMEMBERS, DEL of the sessions, DEL of the index.            *)
RevokeAll(p) ==
    /\ call[p].at = "idle"
    /\ Goto(p, [Idle EXCEPT !.at = "delMembers", !.seen = index,
                                 !.due = {s \in issued : live[s] > 0}])
    /\ UNCHANGED <<sliding, redisVars, used, issued, crashes, historyVars>>

RevokeMembers(p) ==
    /\ call[p].at = "delMembers"
    /\ live' = [s \in Ids |-> IF s \in call[p].seen THEN 0 ELSE live[s]]
    /\ expired' = expired \ call[p].seen
    /\ revoked' = revoked \cup call[p].seen
    /\ Goto(p, [call[p] EXCEPT !.at = "delIndex"])
    /\ UNCHANGED <<sliding, index, indexTtl, used, issued, crashes, swept, excused>>

(* A session added to the index since the SMEMBERS goes with it.           *)
RevokeIndex(p) ==
    /\ call[p].at = "delIndex"
    /\ index' = {} /\ indexTtl' = 0
    /\ swept' = swept \cup call[p].due
    /\ excused' = excused \cup (index \ call[p].seen)
    /\ Goto(p, Idle)
    /\ UNCHANGED <<sliding, live, expired, used, issued, crashes, revoked>>

(* list_by_user, for list_sessions and for revoke_by_public_id of s: the   *)
(* SMEMBERS, a GET of each member, the SREM of those without a live        *)
(* session.  seen holds the ids to prune.                                  *)
List(p, s) ==
    /\ call[p].at = "idle" /\ s \in index \cup {None}
    /\ Goto(p, [Idle EXCEPT !.at = "list", !.todo = index, !.next = s])
    /\ UNCHANGED <<sliding, redisVars, used, issued, crashes, historyVars>>

(* A member past its expires_at loses its entry, and not its key: a        *)
(* refresh in flight may still write it.                                   *)
GetMember(p, i) ==
    /\ call[p].at = "list" /\ i \in call[p].todo
    /\ Goto(p, IF live[i] > 0 /\ i \notin expired
               THEN [call[p] EXCEPT !.todo = @ \ {i}]
               ELSE [call[p] EXCEPT !.todo = @ \ {i}, !.seen = @ \cup {i},
                                    !.next = IF @ = i THEN None ELSE @])
    /\ excused' = excused \cup (expired \cap {i})
    /\ UNCHANGED <<sliding, redisVars, used, issued, crashes, revoked, swept>>

(* revoke_by_public_id goes on to delete the session it found.             *)
DeleteFound(c) == IF c.next = None THEN Idle
                  ELSE [Idle EXCEPT !.at = "get", !.sid = c.next]

Prune(p) ==
    /\ call[p].at = "list" /\ call[p].todo = {}
    /\ SRem(call[p].seen)
    /\ Goto(p, DeleteFound(call[p]))
    /\ UNCHANGED <<sliding, live, expired, used, issued, crashes, historyVars>>

-----------------------------------------------------------------------------
(* The process dies, or Redis goes away, between two commands of a call.   *)
Crash(p) ==
    /\ call[p].at # "idle" /\ crashes < MaxCrashes
    /\ crashes' = crashes + 1
    /\ excused' = excused \cup ({call[p].sid} \ {None})
    /\ Goto(p, Idle)
    /\ UNCHANGED <<sliding, redisVars, used, issued, revoked, swept>>

Next ==
    \/ Tick
    \/ \E p \in Clients :
          \/ \E s \in Ids, previous \in Ids \cup {None} : Login(p, s, previous)
          \/ Set(p) \/ SetIndex(p) \/ SetIndexTtl(p)
          \/ \E s \in Ids : \/ Resolve(p, s) \/ ResolveExpired(p, s)
                           \/ Revoke(p, s) \/ GetMember(p, s)
          \/ Touch(p) \/ TouchGone(p)
          \/ DeleteGet(p) \/ DeleteFromIndex(p) \/ DeleteKey(p)
          \/ RevokeAll(p) \/ RevokeMembers(p) \/ RevokeIndex(p)
          \/ \E s \in Ids \cup {None} : List(p, s)
          \/ Prune(p) \/ Crash(p)

Spec == Init /\ [][Next]_vars

-----------------------------------------------------------------------------
(* Properties                                                              *)

Labels == {"idle", "set", "sadd", "expire", "touch", "bump", "get", "srem", "del",
           "delMembers", "delIndex", "list"}

(* Every variable stays in its domain.  No refresh, however late, hands    *)
(* Redis a lifetime of 0 (SET would refuse it and EXPIRE drop the index),  *)
(* a key outlives its expires_at by one unit at most, and the index has a  *)
(* lifetime exactly when it exists (_ttl_seconds, store.py:368).           *)
TypeOK ==
    /\ sliding \in BOOLEAN /\ live \in [Ids -> 0..TTL]
    /\ index \subseteq Ids /\ indexTtl \in 0..Persistent /\ (index = {} <=> indexTtl = 0)
    /\ expired \subseteq Ids /\ \A s \in expired : live[s] = 1
    /\ call \in [Clients -> [at : Labels, sid : Ids \cup {None}, ttl : 0..TTL,
                             todo : SUBSET Ids, seen : SUBSET Ids, due : SUBSET Ids,
                             next : Ids \cup {None}]]
    /\ \A p \in Clients : call[p].at \in {"sadd", "expire", "bump"} => call[p].ttl > 0
    /\ used \subseteq Ids /\ issued \subseteq used /\ crashes \in 0..MaxCrashes
    /\ revoked \subseteq Ids /\ swept \subseteq Ids /\ excused \subseteq Ids

(* A revoked session stays revoked, whatever refresh was in flight when    *)
(* its key was deleted (service.py:388, "therefore wins").                 *)
RevokedStaysRevoked == \A s \in revoked : live[s] = 0

(* revoke_all ends every session logged in before it began, but for the    *)
(* ones whose index entry was lost: an EXPIRE that left the index less     *)
(* than they have, an expiry inside set or touch, a login whose SADD fell  *)
(* inside another revoke_all, a listing that found its key past its        *)
(* expires_at, a call cut short.  One that another call has taken out of   *)
(* the index is about to go (store.py:402).                                *)
RevokeAllReaches ==
    \A s \in swept : \/ live[s] = 0 \/ s \in excused
                     \/ \E p \in Clients : call[p].at = "del" /\ call[p].sid = s
=============================================================================
