---------------------------- MODULE MCEventManager ----------------------------
(***************************************************************************)
(* Model values and data of the EventManager runs: the JSON channels       *)
(* Autotrack (timing) and Track (realtime).                                *)
(***************************************************************************)
EXTENDS EventManager, TLC

CONSTANTS autotrack, track,
          page, tap,     \* PAGE and VIEW_CLICK
          activate,      \* ACTIVATE, instant, held back while ASA data is fetched
          old,           \* a VIEW_CLICK of a 3.x SDK, in the table from the start
          custom         \* CUSTOM

MCChannel == {autotrack, track}
MCTiming  == {autotrack}

MCEvent == {page, tap, activate, old, custom}

MCPolicy == [e \in MCEvent |->
    IF e = activate THEN {"Instant"} ELSE {"MobileData"}]

MCLength == [e \in MCEvent |-> 1]

MCChannelOf == [e \in MCEvent |-> IF e = custom THEN track ELSE autotrack]

\* Requests are as long as their batch.
MCOutSize == [S \in SUBSET Event |-> Cardinality(S)]

\* The events of each run; the data above is restricted to them.
NetEvents   == {page, tap, custom}
LiveEvents  == {activate, page, old}
On(f, S) == [e \in S |-> f[e]]

NetPolicy    == On(MCPolicy, NetEvents)
NetLength    == On(MCLength, NetEvents)
NetChannelOf == On(MCChannelOf, NetEvents)

LivePolicy    == On(MCPolicy, LiveEvents)
LiveLength    == On(MCLength, LiveEvents)
LiveChannelOf == On(MCChannelOf, LiveEvents)
LiveLegacy    == {old}
LiveHeldBack  == {activate}

=============================================================================
