--------------------------- MODULE SettingsCache ---------------------------
(***************************************************************************)
(* The override cache of settings.Provider: reads (overrideMap), writes    *)
(* (Set, Reset) and the writes of others (another process, SQL by hand) to *)
(* the app_settings table.  The table is abstracted to a version number    *)
(* that every write raises, a map of overrides to the version it is of.    *)
(* overrideMap holds the mutex across its call of the database.            *)
(***************************************************************************)
EXTENDS Naturals

CONSTANTS Callers,     \* goroutines of API requests
          Nobody,      \* the holder of a mutex that is free
          MaxWrites,   \* bound: writes to the table
          MaxFaults    \* bound: database calls that fail

ASSUME CallersAssumption == Nobody \notin Callers
ASSUME BoundAssumption == MaxWrites \in Nat /\ MaxFaults \in Nat

VARIABLES version,     \* of app_settings
          cached,      \* of Provider.overrides; 0 is the empty map
          loaded,      \* Provider.loaded
          expired,     \* now - fetchedAt >= ttl
          mutex,       \* who holds Provider.mu
          call,        \* the step of each goroutine
          acked,       \* history: the latest version a finished Set or Reset wrote
          writes,      \* begun so far
          faults

vars == <<version, cached, loaded, expired, mutex, call, acked, writes, faults>>

Idle == [step |-> "idle"]
At(c, step) == call[c].step = step
Goto(c, r) == call' = [call EXCEPT ![c] = r]
Return(c) == Goto(c, Idle)

Init ==
  /\ version = 1 /\ cached = 0 /\ acked = 0
  /\ loaded = FALSE /\ expired = TRUE
  /\ mutex = Nobody
  /\ call = [c \in Callers |-> Idle]
  /\ writes = 0 /\ faults = 0

Fault == faults < MaxFaults /\ faults' = faults + 1

\* One more write begins.
Another == writes < MaxWrites /\ writes' = writes + 1

Quiet == UNCHANGED <<writes, faults>>
-----------------------------------------------------------------------------
(* overrideMap.  floor is what had been acknowledged when the call began,   *)
(* stale that its own List failed.                                          *)

Reading(c, step, stale) == [step |-> step, floor |-> call[c].floor, stale |-> stale]

\* The call holds the map it has read, and not yet installed it.
Listed(c) == [step |-> "install", floor |-> call[c].floor, data |-> version]

BeginRead(c) ==
  /\ At(c, "idle")
  /\ Goto(c, [step |-> "lock", floor |-> acked, stale |-> FALSE])
  /\ UNCHANGED <<version, cached, loaded, expired, mutex, acked>> /\ Quiet

\* A cache that never grows old.
LockForEver(c) ==
  /\ At(c, "lock") /\ mutex = Nobody
  /\ mutex' = c
  /\ Goto(c, Reading(c, IF loaded THEN "copy" ELSE "list", FALSE))
  /\ UNCHANGED <<version, cached, loaded, expired, acked>> /\ Quiet

Lock(c) ==
  /\ At(c, "lock") /\ mutex = Nobody
  /\ mutex' = c
  /\ Goto(c, Reading(c, IF loaded /\ ~expired THEN "copy" ELSE "list", FALSE))
  /\ UNCHANGED <<version, cached, loaded, expired, acked>> /\ Quiet

\* A call that reads the table and lets the mutex go to do it.
ListUnlocked(c) ==
  /\ At(c, "list")
  /\ Goto(c, Listed(c))
  /\ mutex' = Nobody
  /\ UNCHANGED <<version, cached, loaded, expired, acked>> /\ Quiet

List(c) ==
  /\ At(c, "list")
  /\ Goto(c, Listed(c))
  /\ UNCHANGED <<version, cached, loaded, expired, mutex, acked>> /\ Quiet

\* A failed List is not the caller's error: it gets the last known map.
ListFails(c) ==
  /\ At(c, "list") /\ Fault
  /\ Goto(c, Reading(c, "copy", TRUE))
  /\ UNCHANGED <<version, cached, loaded, expired, mutex, acked, writes>>

Install(c) ==
  /\ At(c, "install")
  /\ cached' = call[c].data
  /\ loaded' = TRUE /\ expired' = FALSE
  /\ Goto(c, Reading(c, "copy", FALSE))
  /\ UNCHANGED <<version, mutex, acked>> /\ Quiet

\* The copy is made and the mutex released.
Copy(c) ==
  /\ At(c, "copy")
  /\ Return(c)
  /\ mutex' = Nobody
  /\ UNCHANGED <<version, cached, loaded, expired, acked>> /\ Quiet
-----------------------------------------------------------------------------
(* Set and Reset, once they have validated.                                 *)

BeginWrite(c) ==
  /\ At(c, "idle") /\ Another
  /\ Goto(c, [step |-> "write"])
  /\ UNCHANGED <<version, cached, loaded, expired, mutex, acked, faults>>

Write(c) ==
  /\ At(c, "write")
  /\ version' = version + 1
  /\ Goto(c, [step |-> "bust", data |-> version + 1])
  /\ UNCHANGED <<cached, loaded, expired, mutex, acked>> /\ Quiet

\* An error may hide a write that has committed; the cache is not busted.
WriteFails(c) ==
  /\ At(c, "write") /\ Fault
  /\ version' \in {version, version + 1}
  /\ Return(c)
  /\ UNCHANGED <<cached, loaded, expired, mutex, acked, writes>>

\* A bust that does not wait for the mutex.
BustUnlocked(c) ==
  /\ At(c, "bust")
  /\ loaded' = FALSE
  /\ acked' = IF call[c].data > acked THEN call[c].data ELSE acked
  /\ Return(c)
  /\ UNCHANGED <<version, cached, expired, mutex>> /\ Quiet

Bust(c) ==
  /\ At(c, "bust") /\ mutex = Nobody
  /\ loaded' = FALSE
  /\ acked' = IF call[c].data > acked THEN call[c].data ELSE acked
  /\ Return(c)
  /\ UNCHANGED <<version, cached, expired, mutex>> /\ Quiet
-----------------------------------------------------------------------------
WriteElsewhere ==
  /\ Another /\ version' = version + 1
  /\ UNCHANGED <<cached, loaded, expired, mutex, call, acked, faults>>

TimePasses ==
  /\ ~expired /\ expired' = TRUE
  /\ UNCHANGED <<version, cached, loaded, mutex, call, acked>> /\ Quiet

Step(c) == Lock(c) \/ List(c) \/ Install(c) \/ Copy(c) \/ Write(c) \/ Bust(c)

Next ==
  \/ \E c \in Callers : BeginRead(c) \/ BeginWrite(c) \/ Step(c) \/ ListFails(c) \/ WriteFails(c)
  \/ WriteElsewhere
  \/ TimePasses

Spec == Init /\ [][Next]_vars

\* Goroutines run, a mutex is handed to whoever waits for it (sync.Mutex's
\* starvation mode), requests keep coming and time keeps passing.
Fairness ==
  /\ \A c \in Callers : SF_vars(Step(c)) /\ WF_vars(BeginRead(c))
  /\ WF_vars(TimePasses)

FairSpec == Spec /\ Fairness
=============================================================================
