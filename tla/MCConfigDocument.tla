-------------------------- MODULE MCConfigDocument --------------------------
(***************************************************************************)
(* A small instance of ConfigDocument: a usable content, one with an       *)
(* unusable LAN section, one filled in with a malformed endpoint, and the  *)
(* blank default; one extra profile; the default port, another one, an     *)
(* explicit zero and a negative one.                                       *)
(***************************************************************************)
EXTENDS ConfigDocument

CONSTANTS good, badLan, typo, fresh, other, otherName

MCPorts == {-1, 0, 9090}

Entry(i, n, c) == [id |-> i, name |-> n, content |-> c]

\* Lists that validate with either profile active, with only one of them, or
\* not at all (a repeated or blank id or name, no profile).
MCProfileLists ==
    { <<>>,
      <<Entry(DefaultId, DefaultName, good)>>,
      <<Entry(DefaultId, DefaultName, fresh)>>,
      <<Entry(other, otherName, typo)>>,
      <<Entry(DefaultId, otherName, badLan)>>,
      <<Entry(DefaultId, DefaultName, good), Entry(other, otherName, fresh)>>,
      <<Entry(DefaultId, DefaultName, good), Entry(other, otherName, good)>>,
      <<Entry(other, otherName, typo), Entry(DefaultId, DefaultName, good)>>,
      <<Entry(DefaultId, otherName, good), Entry(other, otherName, good)>>,
      <<Entry(other, otherName, good), Entry(other, DefaultName, good)>>,
      <<Entry(Blank, Blank, good)>> }

\* A legacy file from before the switch existed, one that cannot be used, and
\* two profiles files, the second enabled before it was filled in.
MCHandWritten ==
    { [kind |-> "legacy", enabled |-> None, content |-> good, port |-> 0],
      [kind |-> "legacy", enabled |-> TRUE, content |-> fresh, port |-> 9090],
      [kind |-> "profiles", enabled |-> None, active |-> None, port |-> 9090,
       profiles |-> <<Entry(DefaultId, DefaultName, good), Entry(other, otherName, fresh)>>],
      [kind |-> "profiles", enabled |-> TRUE, active |-> DefaultId, port |-> None,
       profiles |-> <<Entry(DefaultId, DefaultName, fresh)>>] }
=============================================================================
