--------------------------- MODULE DuplicateLookup ---------------------------
(***************************************************************************)
(* The external lookups of app/duplicates.py: the paged history of a        *)
(* program's API, and the disclose.io context, whose error clause names a module *)
(* that the file does not import.                                           *)
(***************************************************************************)
EXTENDS Naturals, FiniteSets

CONSTANTS
  Pages,      \* pages the API may answer with
  First,
  MaxPages    \* max_pages

VARIABLES
  db,    \* link: what page follows a page, or "end"; kind of a page's body:
         \* "object" or "other"
  proc   \* at; page: to be fetched; pages: fetched; reports: of which pages;
         \* result

vars == <<db, proc>>

Ways == {"history", "disclose"}

Init ==
  /\ db \in [link : [Pages -> Pages \cup {"end"}], kind : [Pages -> {"object", "other"}]]
  /\ \E w \in Ways : proc = [way |-> w, at |-> "fetch", page |-> First, pages |-> 0, reports |-> {}, result |-> "none"]

Ends(result) == proc' = [proc EXCEPT !.at = "over", !.result = result]

\* An error of the transport, its status or its JSON.
Fail ==
  /\ proc.way = "history" /\ proc.at = "fetch"
  /\ Ends("DuplicateLookupError") /\ UNCHANGED db

\* Mutant: the limit of pages ends the history.
TooManyStopsSilently ==
  /\ proc.way = "history" /\ proc.at = "fetch" /\ proc.pages = MaxPages
  /\ Ends("reports") /\ UNCHANGED db

TooMany ==
  /\ proc.way = "history" /\ proc.at = "fetch" /\ proc.pages = MaxPages
  /\ Ends("DuplicateLookupError") /\ UNCHANGED db

\* A body that is no object has neither reports nor a next page.
Fetch ==
  LET p == proc.page
      next == IF db.kind[p] = "object" THEN db.link[p] ELSE "end"
  IN /\ proc.way = "history" /\ proc.at = "fetch" /\ proc.pages < MaxPages
     /\ proc' = [proc EXCEPT !.pages = @ + 1, !.page = next,
                   !.reports = IF db.kind[p] = "object" THEN @ \cup {p} ELSE @,
                   !.at = IF next = "end" THEN "over" ELSE @,
                   !.result = IF next = "end" THEN "reports" ELSE @]
     /\ UNCHANGED db

DiscloseAnswers ==
  /\ proc.way = "disclose" /\ proc.at = "fetch" /\ db.kind[First] = "object"
  /\ Ends("context") /\ UNCHANGED db

\* The except clause evaluates json.JSONDecodeError; json is not imported.
DiscloseFails ==
  /\ proc.way = "disclose" /\ proc.at = "fetch"
  /\ Ends("NameError") /\ UNCHANGED db

Cancelled == proc.at = "fetch" /\ Ends("cancelled") /\ UNCHANGED db

Next ==
  Fail \/ TooMany \/ Fetch \/ DiscloseAnswers \/ DiscloseFails \/ Cancelled

Spec == Init /\ [][Next]_vars

------------------------------------------------------------------------------

\* A history that is returned has reached the last page, or a page whose body is
\* no object: a lookup that stops at its limit of pages, or goes round in
\* circles, is an error and never looks like a complete history.
HistoryReachesItsEnd ==
  proc.way = "history" /\ proc.result = "reports" => proc.page = "end"

=============================================================================
