--------------------------- MODULE ExchangeCreation ---------------------------
(***************************************************************************)
(* How exchanges come about: what the schemas let through, the rows of a    *)
(* batch that are built one after the other and saved one after the other,  *)
(* and the expiry they get.  A request is carried through its steps by the  *)
(* functions below; Decisions makes them actions.                           *)
(***************************************************************************)
EXTENDS Naturals, Sequences

CONSTANTS
  Now,        \* the clock at creation
  ExchangeTtl \* config.exchangeTtl

\* 0 stands for a date that is not given.
ASSUME ClockAssumption == Now \in Nat \ {0} /\ ExchangeTtl \in Nat

(* A row of a batch: its vc is absent, a string that is a credential         *)
(* template, or one that is not.                                             *)
Row == [vc : {"none", "template", "text"}, subjectData : BOOLEAN, retrievalId : BOOLEAN]

(* optionalFutureDate.                                                       *)
OptionalFutureDate(expires) == expires = 0 \/ expires < Now

CredentialDataParses(row) == row.retrievalId /\ (row.vc # "none" \/ row.subjectData)

(* exchangeBatchSchema: every row parses, and a batchId comes with           *)
(* subjectData and not without.                                              *)
BatchParses(request) ==
  /\ \A i \in DOMAIN request.rows : CredentialDataParses(request.rows[i])
  /\ (\E i \in DOMAIN request.rows : request.rows[i].subjectData) <=> request.batchId
  /\ OptionalFutureDate(request.expires)

(* vcApiExchangeCreateSchema: one exchange, with the variables of a row.     *)
SingleParses(request) == OptionalFutureDate(request.expires)

Parses(request) == IF request.batch THEN BatchParses(request) ELSE SingleParses(request)

(* validateExchangeClaim and validateExchangeDidAuth.                        *)
Validates(request, row) == request.workflow = "claim" => row.vc = "template"

(* A batch does not pass its `expires` on to its exchanges.                  *)
ExpiresOf(request) ==
  IF ~request.batch /\ request.expires # 0 THEN request.expires ELSE Now + ExchangeTtl

(* saveExchange gives a record the time to live from now to its `expires`,   *)
(* and a second: less than one unit of this clock.  A store in process takes *)
(* a record whose time is over, and no get finds it; Redis may refuse it,    *)
(* which is FailSave.                                                        *)
Outlives(expires) == expires >= Now

(* The progress of one request: how many exchanges were built, which were    *)
(* saved, which of these a get finds, and the answer.                        *)
Asked(request) ==
  [request |-> request, built |-> 0, saved |-> {}, readable |-> {}, answer |-> "unparsed"]

Rows(creation) == creation.request.rows

ParseRequest(creation) ==
  [creation EXCEPT !.answer = IF Parses(creation.request) THEN "none" ELSE "refused"]

ToBuild(creation) == creation.answer = "none" /\ creation.built < Len(Rows(creation))

BuildExchange(creation) ==
  IF Validates(creation.request, Rows(creation)[creation.built + 1])
  THEN [creation EXCEPT !.built = @ + 1]
  ELSE [creation EXCEPT !.answer = "refused"]

\* A slip: each exchange is saved as soon as it is built.
ReadyAsBuilt(creation) ==
  creation.answer = "none" /\ creation.built > 0 /\ creation.built \notin creation.saved

(* All exchanges are built, and so validated, before the first is saved.     *)
ReadyToSave(creation) ==
  creation.answer = "none" /\ creation.built = Len(Rows(creation))

NextToSave(creation) ==
  CHOOSE i \in 1..creation.built : i \notin creation.saved /\ 1..(i - 1) \subseteq creation.saved

(* saveExchange of the next one; the answer follows the last.                *)
SaveNext(creation) ==
  LET row   == NextToSave(creation)
      saved == creation.saved \cup {row}
  IN
  [creation EXCEPT !.saved = saved,
     !.readable = IF Outlives(ExpiresOf(creation.request)) THEN @ \cup {row} ELSE @,
     !.answer = IF saved = DOMAIN Rows(creation) THEN "created" ELSE @]

(* A save throws: 500, and what was saved before stays.                      *)
FailSave(creation) == [creation EXCEPT !.answer = "failed"]
=============================================================================
