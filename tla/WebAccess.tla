------------------------------- MODULE WebAccess -------------------------------
(* What lets a request in: the session, a value with a time to live in an      *)
(* AuthSessionStoreDO (one object for each key, whose storage operations no    *)
(* other event interrupts, and whose alarm deletes the value), and the API     *)
(* key, a document that is looked up, checked and then used.                   *)
EXTENDS Integers, FiniteSets

CONSTANTS
    ClockBound,   \* bound: the clock of the session store
    CountBound,   \* bound: increments of a counter
    KeyCaller,    \* requests that carry the key
    Never         \* no expiry, no alarm, no entry

ASSUME WebAccessAssumption ==
    /\ ClockBound \in Nat /\ CountBound \in Nat /\ IsFiniteSet(KeyCaller)
    /\ Never \notin Int

VARIABLES
    clock,   \* Date.now
    entry,   \* the stored value: a number that stands for it, and when it expires
    alarm,   \* when the object's alarm is due
    torn,    \* the object ended between put and setAlarm of the last set
    served,  \* what the last operation returned and when that was to expire
    apiKey,  \* "none", "live", "expired" or "revoked"
    keyCall  \* each request with the key: where, and whether it came too late

accessVars == <<clock, entry, alarm, torn, served, apiKey, keyCall>>
keyVars == <<apiKey, keyCall>>

NoEntry == [value |-> 0, expires |-> Never]
Value(v, expires) == [value |-> v, expires |-> expires]

\* current: a value that has expired is deleted when it is found; its alarm stays.
Expired(e) == e.expires # Never /\ e.expires <= clock
Found == IF Expired(entry) THEN NoEntry ELSE entry

AccessInit ==
    /\ clock = 0
    /\ entry = NoEntry /\ alarm = Never /\ torn = FALSE
    /\ served = [value |-> 0, expires |-> Never, at |-> 0]
    /\ apiKey = "none"
    /\ keyCall = [k \in KeyCaller |-> [pc |-> "idle", late |-> FALSE]]

Tick == /\ clock < ClockBound
        /\ clock' = clock + 1
        /\ UNCHANGED <<entry, alarm, torn, served, keyVars>>

-------------------------------------------------------------------------------
(* AuthSessionStoreDO                                                          *)

Serve(e) == served' = [value |-> e.value, expires |-> e.expires, at |-> clock]

GetValue ==
    /\ entry' = Found
    /\ Serve(Found)
    /\ UNCHANGED <<clock, alarm, torn, keyVars>>

ExpiryFor(ttl) == IF ttl > 0 THEN clock + ttl ELSE Never

\* Mutant: a value without a time to live leaves the alarm of the one before.
SetWithoutDeleteAlarm(v, ttl, whole) ==
    /\ entry' = Value(v, ExpiryFor(ttl))
    /\ alarm' = IF whole /\ ttl > 0 THEN ExpiryFor(ttl) ELSE alarm
    /\ torn' = ~whole
    /\ UNCHANGED <<clock, served, keyVars>>
\* put, then setAlarm or deleteAlarm; the object may end in between.
SetValue(v, ttl, whole) ==
    /\ entry' = Value(v, ExpiryFor(ttl))
    /\ alarm' = IF whole THEN ExpiryFor(ttl) ELSE alarm
    /\ torn' = ~whole
    /\ UNCHANGED <<clock, served, keyVars>>

DeleteValue ==
    /\ entry' = NoEntry /\ alarm' = Never /\ torn' = FALSE
    /\ UNCHANGED <<clock, served, keyVars>>

GetAndDeleteValue ==
    /\ Serve(Found)
    /\ entry' = NoEntry /\ alarm' = Never /\ torn' = FALSE
    /\ UNCHANGED <<clock, keyVars>>

\* A counter keeps the expiry of its first increment, or takes one if it had
\* none; only the first sets an alarm.  The window of a rate limit is not empty.
IncrementValue(ttl) ==
    /\ Found.value < CountBound
    /\ entry' = Value(Found.value + 1, IF Found.expires = Never THEN ExpiryFor(ttl) ELSE Found.expires)
    /\ alarm' = IF Found = NoEntry THEN ExpiryFor(ttl) ELSE alarm
    /\ torn' = (torn /\ Found # NoEntry)
    /\ UNCHANGED <<clock, served, keyVars>>

\* The alarm is delivered at its time or later, and deletes what it finds.
Alarm ==
    /\ alarm # Never /\ alarm <= clock
    /\ entry' = NoEntry /\ alarm' = Never /\ torn' = FALSE
    /\ UNCHANGED <<clock, served, keyVars>>

-------------------------------------------------------------------------------
(* API keys                                                                    *)

CreateKey ==
    /\ apiKey = "none" /\ apiKey' = "live"
    /\ UNCHANGED <<clock, entry, alarm, torn, served, keyCall>>

\* revoke asks for a key that is not revoked; a key may also run out.
EndKey(status) ==
    /\ apiKey \notin {"none", "revoked"}
    /\ status = "expired" => apiKey = "live"
    /\ apiKey' = status
    /\ UNCHANGED <<clock, entry, alarm, torn, served, keyCall>>

CallWithKey(k) ==
    /\ keyCall[k].pc = "idle" /\ apiKey # "none"
    /\ keyCall' = [keyCall EXCEPT ![k] = [pc |-> "look", late |-> apiKey # "live"]]
    /\ UNCHANGED <<clock, entry, alarm, torn, served, apiKey>>

\* authenticate: the document and its expiry, the membership, then lastUsedAt.
FindKey(k) ==
    /\ keyCall[k].pc = "look"
    /\ keyCall' = [keyCall EXCEPT ![k].pc = IF apiKey = "live" THEN "member" ELSE "idle"]
    /\ UNCHANGED <<clock, entry, alarm, torn, served, apiKey>>

AdmitKey(k, admitted) ==
    /\ keyCall[k].pc = "member"
    /\ keyCall' = [keyCall EXCEPT ![k].pc = IF admitted THEN "scope" ELSE "idle"]
    /\ UNCHANGED <<clock, entry, alarm, torn, served, apiKey>>

\* A request whose key has not the scope ends here: before the route does
\* anything, or in the tool of the MCP server that was called.
CheckScope(k, granted) ==
    /\ keyCall[k].pc = "scope"
    /\ keyCall' = [keyCall EXCEPT ![k].pc = IF granted THEN "acts" ELSE "idle"]
    /\ UNCHANGED <<clock, entry, alarm, torn, served, apiKey>>

EndKeyCall(k) ==
    /\ keyCall[k].pc = "acts"
    /\ keyCall' = [keyCall EXCEPT ![k].pc = "idle"]
    /\ UNCHANGED <<clock, entry, alarm, torn, served, apiKey>>

AccessNext ==
    \/ Tick \/ GetValue \/ DeleteValue \/ GetAndDeleteValue \/ Alarm
    \/ \E ttl \in 0 .. 2, whole \in BOOLEAN : SetValue(1, ttl, whole)
    \/ \E ttl \in 1 .. 2 : IncrementValue(ttl)
    \/ CreateKey \/ \E status \in {"expired", "revoked"} : EndKey(status)
    \/ \E k \in KeyCaller : \/ CallWithKey(k) \/ FindKey(k) \/ EndKeyCall(k)
                            \/ \E yes \in BOOLEAN : AdmitKey(k, yes) \/ CheckScope(k, yes)

AccessSpec == AccessInit /\ [][AccessNext]_accessVars

-------------------------------------------------------------------------------
(* Access runs out when it should, and not before: the alarm of a stored value *)
(* is the one of its own expiry, so that of a value it replaced takes nothing  *)
(* away, unless the object ended in the middle of a set; nothing is served     *)
(* past its expiry; and no request that comes after the key was revoked or ran *)
(* out gets through (auth-session-store.ts, api-keys.ts).                      *)
AccessRunsOut ==
    /\ entry # NoEntry /\ ~torn => alarm \in {Never, entry.expires}
    /\ served.expires # Never => served.at < served.expires
    /\ \A k \in KeyCaller : keyCall[k].pc \in {"member", "scope", "acts"} => ~keyCall[k].late
===============================================================================
