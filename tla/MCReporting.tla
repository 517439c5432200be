----------------------------- MODULE MCReporting -----------------------------
(* A small ship: one tier may use one resource, one two, one all, and resources can tie. *)
EXTENDS Reporting

MCPassengers == << [id |-> "mira", level |-> "Silver"], [id |-> "teo", level |-> "Gold"] >>

MCResources ==
    << [id |-> "gym", level |-> "Gold"], [id |-> "lounge", level |-> "Silver"],
       [id |-> "suite", level |-> "Diamond"] >>
=============================================================================
