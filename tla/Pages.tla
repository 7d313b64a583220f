-------------------------------- MODULE Pages --------------------------------
(***************************************************************************)
(* The handlers behind the settings page and the key board that keep state *)
(* between requests: Settings, Board, Visibility and TokenTypes.  They     *)
(* share no state, so no interleaving of one with another tells anything:  *)
(* a behaviour picks a part and runs it alone.                             *)
(***************************************************************************)
EXTENDS Settings

CONSTANTS
    Keys, Teams, Users,                 \* Board
    Labels, Excluded, Ttl,              \* Visibility
    Start, MaxTime, MaxChanges, MaxFailures, MaxRead,
    Windows, Days, TokenTtl, MaxEntries, MaxSeconds, Backstop, \* TokenTypes
    CbThreshold, CbCooldown, MaxNow,
    Requests                            \* requests under way, of Board and TokenTypes

VARIABLES
    part,
    loaded, cache, detected, teamOvr, userOvr, asking, misread,
    time, known, named, assigned, hiding, gate, thread, shown, turned, fault, changes, failures,
    clock, pulled, flight, req, breaker, good, late

Keyboard == INSTANCE Board
Gated == INSTANCE Visibility
Tokens == INSTANCE TokenTypes WITH now <- clock, cache <- pulled, Ttl <- TokenTtl

\* No team and no user is named as an identifier, nor without a name.
ASSUME BoardAssumption == Teams \cap {"", Keyboard!RawId} = {} /\ Users \cap {"", Keyboard!RawId} = {}

\* The clock is not turned back, and the process starts within the time covered.
ASSUME GateAssumption ==
    Ttl \in Nat /\ MaxRead \in Nat /\ Start \in Nat /\ MaxTime \in Nat /\ Start <= MaxTime

\* A window has days, and someone asks.
ASSUME TokensAssumption ==
    /\ IsFiniteSet(Requests) /\ Requests # {} /\ IsFiniteSet(Windows) /\ Days \in Nat \ {0}
    /\ TokenTtl \in Nat /\ MaxEntries \in Nat /\ MaxSeconds \in Nat /\ Backstop \in Nat
    /\ CbThreshold \in Nat /\ CbCooldown \in Nat /\ MaxNow \in Nat

keyboard == <<loaded, cache, detected, teamOvr, userOvr, asking, misread>>
gated    == <<time, known, named, assigned, hiding, gate, thread, shown, turned, fault,
              changes, failures>>
tokens   == <<clock, pulled, flight, req, breaker, good, late>>

PartInit ==
    /\ part \in {"settings", "keyboard", "gate", "tokens"}
    /\ Init /\ (part # "settings" => default = CHOOSE d \in Environments : TRUE)
    /\ Keyboard!Init /\ (part # "keyboard" => detected = << >>)
    /\ Gated!Init /\ (part # "gate" => known = {} /\ assigned = {} /\ ~hiding)
    /\ assigned \cap Excluded = {}  \* an override of an excluded key changes nothing
    /\ Tokens!Init

PartNext ==
    /\ part' = part
    /\ \/ part = "settings" /\ Next /\ UNCHANGED <<keyboard, gated, tokens>>
       \/ part = "keyboard" /\ Keyboard!Next /\ UNCHANGED <<vars, gated, tokens>>
       \/ part = "gate" /\ Gated!Next /\ UNCHANGED <<vars, keyboard, tokens>>
       \/ part = "tokens" /\ Tokens!Next /\ UNCHANGED <<vars, keyboard, gated>>

PartSpec == PartInit /\ [][PartNext]_<<part, vars, keyboard, gated, tokens>>

-----------------------------------------------------------------------------
\* Settings: what the program reads is what the page shows, whatever is kept is valid
\* (config.py:652-735), and a restart changes no overridden value and brings back none
\* that was reset, unless a write failed (app.py:1652-1660, 4367).
SettingsHold ==
    /\ [](part = "settings" => TypeOK /\ OverridesValid /\ LiveFollows)
    /\ RestartKeeps

\* Board: no identifier is shown for a team or a user, and one that was detected does
\* not go blank again, on the board or in its table, but for what a failed write or a
\* failed first read takes with it (app.py:2583-2588, 2601-2604, 2630-2643).
BoardHolds ==
    /\ [](part = "keyboard" => Keyboard!TypeOK /\ Keyboard!NamesOnly)
    /\ Keyboard!NeverBlinks /\ Keyboard!StoredKept

\* Visibility: a response names exactly the keys that may be named, but for what has
\* changed, or failed to be read, in the last moments (app.py:2057-2084).
KeysGated ==
    /\ [](part = "gate" => Gated!TypeOK)
    /\ [][part = "gate" => Gated!ServedIsTrue]_<<part, gated>>

\* TokenTypes: one pull of a window at a time, and whoever follows waits for one that
\* is still to end (app.py:3106-3128); each pull that runs when the breaker opens
\* fails once more at most (litellm.py:1980-1985); a window whose pull brought
\* something is not pulled again before the TTL, unless the cache had no room for it
\* (app.py:3014-3019).
TokensPulledOnce ==
    /\ [](part = "tokens" => Tokens!TypeOK /\ Tokens!OneFlight /\ Tokens!OpenMeansQuiet)
    /\ Tokens!PullsSpaced
=============================================================================
