---------------------------- MODULE OebbVerdict -------------------------------
(***************************************************************************)
(* What the coverage check and the journey search learn from the OEBB      *)
(* HAFAS backend (app/network_coverage/external_verify.py): the two calls  *)
(* of fetch_oebb_two_step and the verdict on a pair.                       *)
(*                                                                         *)
(* An answer of the backend is a record: how the HTTP call ended (`http`), *)
(* the envelope's error (`err`) and the services' results (`svc`). A       *)
(* connection has a duration, as the number the digits DDHHMMSS make, and  *)
(* a count of changes; either may be unreadable.                           *)
(***************************************************************************)
EXTENDS Integers, Sequences, FiniteSets, FiniteSetsExt, Functions

CONSTANTS
    ResolveAnswers,  \* answers to LocGeoPos
    SearchAnswers,   \* answers to TripSearch
    Lids,            \* location identifiers
    Unknown          \* an absent or unreadable value

\* How a call may end without an answer, and what an answer is.
Unanswered == {"no answer", "status", "not json", "null"}

Envelope(answer) == /\ answer # Unknown /\ answer.http \in Unanswered \cup {"ok"}
                    /\ answer.svc \in Seq(Range(answer.svc))

ASSUME VerdictAssumption ==
    /\ Unknown \notin Lids /\ Unknown \notin Nat /\ Unknown \notin Unanswered
    /\ Unknown \notin {"ok", "envelope", "no result", "no station"}
    /\ \A answer \in ResolveAnswers :
         /\ Envelope(answer)
         /\ \A s \in Range(answer.svc) : s.found \in Seq(Lids)
    /\ \A answer \in SearchAnswers :
         /\ Envelope(answer)
         /\ \A s \in Range(answer.svc) : /\ s.found \in Seq(Range(s.found))
                                         /\ \A c \in Range(s.found) : c.dur \in Nat \cup {Unknown}

VARIABLE check   \* the check of one pair: the step it is at and the answers so far

verdictVars == <<check>>

VerdictInit ==
    check = [at |-> "resolve", resolved |-> Unknown, searched |-> Unknown, verdict |-> Unknown]

-----------------------------------------------------------------------------
(* The calls *)

\* VerifyResult: no verdict when something failed, else whether there are connections.
Failed(why) == [ok |-> FALSE, count |-> 0, seconds |-> Unknown, changes |-> Unknown, error |-> why]
NoService == [ok |-> FALSE, count |-> 0, seconds |-> Unknown, changes |-> Unknown, error |-> Unknown]

\* _post_hafas: no answer, a status other than 200 and a body that is not JSON are failures.
\* A body "null" is an answer without a payload.
PostFailed(answer) == answer.http \in Unanswered

EnvelopeRefused(answer) == answer.err \notin {Unknown, "OK"}

\* Mutant: a service that failed still has a stop.
LidAtAnyError(answer, i) ==
    IF i <= Len(answer.svc) /\ answer.svc[i].found # <<>> THEN answer.svc[i].found[1] ELSE Unknown

\* _extract_lids_from_locgeopos: a missing result, a service error and an empty list are no stop.
LidAt(answer, i) ==
    IF /\ i <= Len(answer.svc)
       /\ answer.svc[i].err \in {Unknown, "OK"}
       /\ answer.svc[i].found # <<>>
    THEN answer.svc[i].found[1] ELSE Unknown

\* fetch_oebb_two_step, the first call: both ends as stations, or a verdict already.
Resolve ==
    /\ check.at = "resolve"
    /\ \E answer \in ResolveAnswers :
        LET failure == IF PostFailed(answer) THEN answer.http
                       ELSE IF EnvelopeRefused(answer) THEN "envelope"
                       ELSE IF Unknown \in {LidAt(answer, 1), LidAt(answer, 2)} THEN "no station"
                       ELSE Unknown
        IN check' = [check EXCEPT !.resolved = answer,
                       !.at = IF failure = Unknown THEN "search" ELSE "told",
                       !.verdict = IF failure = Unknown THEN Unknown ELSE Failed(failure)]

\* _parse_hafas_duration: the last six digits are HHMMSS, those before them days.
DurationSeconds(d) ==
    IF d = Unknown THEN Unknown
    ELSE (d \div 1000000) * 86400 + ((d \div 10000) % 100) * 3600
           + ((d \div 100) % 100) * 60 + (d % 100)

\* The first of some places that has the least value.
FirstLeast(f, S) == Min({i \in S : \A j \in S : f[i] <= f[j]})

\* How many of some places come up to one.
PlaceAmong(S, i) == Cardinality({j \in S : j <= i})

\* _summarise_connections: the least of the durations that could be read, and, at its place
\* among them, the count of changes of those that could be.
Summarised(connections) ==
    LET seconds == [i \in DOMAIN connections |-> DurationSeconds(connections[i].dur)]
        read    == {i \in DOMAIN connections : connections[i].dur # Unknown}
        counted == {i \in DOMAIN connections : connections[i].chg # Unknown}
        best    == FirstLeast(seconds, read)
        there   == {i \in counted : PlaceAmong(counted, i) = PlaceAmong(read, best)}
    IN IF connections = <<>> THEN NoService
       ELSE [ok |-> TRUE, count |-> Len(connections),
             seconds |-> IF read = {} THEN Unknown ELSE seconds[best],
             changes |-> IF read = {} \/ there = {} THEN Unknown ELSE connections[Min(there)].chg,
             error |-> Unknown]

\* _parse_hafas_response: H890 is the backend's "no connections found"; any other error of
\* the envelope or of the service is a failure.
ParsedResponse(answer) ==
    LET svc == answer.svc[1]
    IN IF EnvelopeRefused(answer) THEN Failed("envelope")
       ELSE IF answer.svc = <<>> THEN Failed("no result")
       ELSE IF svc.err \in {Unknown, "OK"} THEN Summarised(svc.found)
       ELSE IF svc.err = "H890" THEN NoService
       ELSE Failed(svc.err)

\* The second call, between the stations the first one found.
SearchTrip ==
    /\ check.at = "search"
    /\ \E answer \in SearchAnswers :
         check' = [check EXCEPT !.at = "told", !.searched = answer,
                     !.verdict = IF PostFailed(answer) THEN Failed(answer.http)
                                 ELSE ParsedResponse(answer)]

VerdictNext == Resolve \/ SearchTrip

VerdictSpec == VerdictInit /\ [][VerdictNext]_verdictVars

-----------------------------------------------------------------------------
(* Properties *)

\* VerifyResult: a verdict without an error that is not ok is a real "no service". Both calls
\* were answered, both ends were found, and the backend itself said there is no connection:
\* a failure of either call, whichever layer it is in, is never shown as a missing train.
NoServiceIsSaid ==
    (check.at = "told" /\ ~check.verdict.ok /\ check.verdict.error = Unknown) =>
        /\ check.searched # Unknown
        /\ check.searched.http = "ok" /\ check.searched.err \in {Unknown, "OK"}
        /\ \/ check.searched.svc[1].err = "H890"
           \/ check.searched.svc[1].err \in {Unknown, "OK"} /\ check.searched.svc[1].found = <<>>

\* A search is only made between two stations that the backend found, each without an error
\* (_extract_lids_from_locgeopos), so that a verdict is about the pair that was asked.
SearchedBetweenStations ==
    check.searched # Unknown =>
        \A i \in {1, 2} : /\ check.resolved.svc[i].err \in {Unknown, "OK"}
                          /\ check.resolved.svc[i].found[1] \in Lids

\* _summarise_connections: the best duration is the shortest of those that can be read, in
\* whatever order the backend lists them, and when all connections can be read the number of
\* changes told with it is that of such a connection.
BestIsTheShortest ==
    (check.at = "told" /\ check.verdict.ok) =>
        LET connections == check.searched.svc[1].found
            read == {i \in DOMAIN connections : connections[i].dur # Unknown}
            whole == \A i \in DOMAIN connections : Unknown \notin {connections[i].dur, connections[i].chg}
            Seconds(i) == DurationSeconds(connections[i].dur)
        IN /\ check.verdict.seconds = Unknown <=> read = {}
           /\ read # {} => check.verdict.seconds = Min({Seconds(i) : i \in read})
           /\ whole => \E i \in read : /\ Seconds(i) = check.verdict.seconds
                                       /\ connections[i].chg = check.verdict.changes

-----------------------------------------------------------------------------
(***************************************************************************)
(* The token of a stop of an OEBB answer, which the matcher compares with  *)
(* the tokens of the other engines' stops                                  *)
(* (app/network_coverage/external_verify.py, oebb_stop_id).                *)
(*                                                                         *)
(* An id is a sequence of characters: the digits, and one value above them *)
(* for any other character. UicWidth stands for the seven digits of a UIC  *)
(* code and PayloadMax for the 64 characters an opaque id is cut to.       *)
(***************************************************************************)

CONSTANTS
    ExtIds,      \* the ids of an answer's locations; none is the empty sequence
    LidFields,   \* the lids of an answer's locations, as sequences of fields
    UicWidth,
    PayloadMax,
    NoToken

ASSUME TokenAssumption ==
    /\ UicWidth \in Nat \ {0, 1} /\ PayloadMax \in Nat \ {0}
    /\ \A id \in ExtIds : id \in Seq(Nat)
    /\ \A lid \in LidFields : /\ lid \in Seq(Range(lid))
                              /\ \A field \in Range(lid) : field.value \in Seq(Nat)

VARIABLES
    located,   \* the location whose token is wanted: its id, and its lid
    token      \* its token, once it is classified

tokenVars == <<located, token>>

TokenInit == located \in [ext : ExtIds, lid : LidFields] /\ token = NoToken

-----------------------------------------------------------------------------
(* Reading an id *)

Digit(c) == c \in 0..9
AllDigits(id) == \A i \in DOMAIN id : Digit(id[i])

\* str.lstrip("0")
Stripped(id) ==
    LET kept == {i \in DOMAIN id : id[i] # 0}
    IN IF kept = {} THEN <<>> ELSE SubSeq(id, Min(kept), Len(id))

\* _lid_field: the value of the first field of that name, not a number that looks right.
LidField(lid, key) ==
    LET named == {i \in DOMAIN lid : lid[i].key = key}
    IN IF named = {} THEN <<>> ELSE lid[Min(named)].value

\* _UIC_RE: the first run of digits, not part of a longer one, of the width of a UIC code or
\* of one with its check digit; none is the empty sequence.
FirstRun(text) ==
    LET runs == {r \in (DOMAIN text) \X (DOMAIN text) :
                    /\ r[2] - r[1] + 1 \in {UicWidth, UicWidth + 1}
                    /\ \A k \in r[1]..r[2] : Digit(text[k])
                    /\ r[1] = 1 \/ ~Digit(text[r[1] - 1])
                    /\ r[2] = Len(text) \/ ~Digit(text[r[2] + 1])}
    IN IF runs = {} THEN <<>>
       ELSE LET i == Min({r[1] : r \in runs}) IN SubSeq(text, i, i + UicWidth - 1)

\* extract_uic
ExtractUic(text) == IF FirstRun(text) = <<>> THEN NoToken
                    ELSE [scheme |-> "UIC", id |-> FirstRun(text)]

\* _oebb_opaque_payload: cut, and without its leading zeros when it is a number.
OpaquePayload(id) ==
    LET value == SubSeq(id, 1, Min({Len(id), PayloadMax}))
    IN IF ~AllDigits(value) THEN value
       ELSE IF Stripped(value) = <<>> THEN <<0>> ELSE Stripped(value)

\* _OEBB_UIC_RE
UicForm(id) == AllDigits(id) /\ Len(Stripped(id)) \in {UicWidth, UicWidth + 1}

\* The location's own id, else the lid's field L.
ChosenId(ext, lid) == IF ext # <<>> THEN ext ELSE LidField(lid, "L")

\* oebb_stop_id: a UIC code, an opaque id of the OEBB's own, or nothing.
StopToken(ext, lid) ==
    LET id == ChosenId(ext, lid)
    IN IF id = <<>> THEN NoToken
       ELSE IF UicForm(id) THEN [scheme |-> "UIC", id |-> SubSeq(Stripped(id), 1, UicWidth)]
       ELSE [scheme |-> "OEBB", id |-> OpaquePayload(id)]

\* A location of an answer gets its token.
Classify ==
    /\ token = NoToken
    /\ token' = StopToken(located.ext, located.lid)
    /\ token' # NoToken
    /\ UNCHANGED located

TokenNext == Classify

TokenSpec == TokenInit /\ [][TokenNext]_tokenVars

-----------------------------------------------------------------------------
(* Properties *)

\* The invariant _oebb_opaque_payload calls load-bearing: an opaque id that is a number is
\* never taken for a UIC code when its token is read again (extract_uic), for ids no longer
\* than the cut.
OpaqueStaysOpaque ==
    (/\ token # NoToken /\ Len(ChosenId(located.ext, located.lid)) <= PayloadMax
     /\ token.scheme = "OEBB" /\ AllDigits(token.id)) => ExtractUic(token.id) = NoToken

\* oebb_stop_id: one station has one token. Zeros before a number make no other station, and a
\* UIC token is the one extract_uic gives the other engines' plain form of the code, with its
\* check digit or without.
OneTokenPerStation ==
    LET id == ChosenId(located.ext, located.lid)
    IN (token # NoToken /\ AllDigits(id) /\ Len(id) < PayloadMax) =>
        /\ StopToken(<<0>> \o id, <<>>) = token
        /\ token.scheme = "UIC" => token = ExtractUic(Stripped(id))

\* A coordinate of a lid is never a station: without an id of its own, a location's token is
\* that of the field L and of no other (the failure oebb_stop_id was written to replace).
CoordinateIsNoStation ==
    (token # NoToken /\ located.ext = <<>>) =>
        \A lid \in LidFields :
            LidField(lid, "L") = LidField(located.lid, "L") =>
                StopToken(<<>>, lid) = token
=============================================================================
