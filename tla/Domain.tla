------------------------------- MODULE Domain -------------------------------
(***************************************************************************)
(* What every module of the project talks about: tenders, and positions in *)
(* the chronological PROZORRO feed.                                        *)
(***************************************************************************)
EXTENDS Integers, FiniteSets

CONSTANTS
    Tenders,     \* the tenders PROZORRO publishes
    MaxFeed      \* bound on the number of feed entries ever published

ASSUME FeedAssumption == MaxFeed \in Nat

\* Storage.get_offset() answers None until a first cursor has been saved.
NoCursor == -1

\* A cursor stands for the last feed position it covers: PROZORRO's offset is
\* the modification time of the last entry of the page it came with.
Positions == 0 .. MaxFeed
Cursors == Positions \cup {NoCursor}
=============================================================================
