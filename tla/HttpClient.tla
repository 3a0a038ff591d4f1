----------------------------- MODULE HttpClient -----------------------------
(* dhttp.HttpClient: a request is put together by chained calls, content in   *)
(* three places (Data, SliceData, RawString), and sent by End, which repeats  *)
(* it on some statuses. A client serves one request after the other; a clone  *)
(* starts from a copy and is not cleared.                                     *)
EXTENDS Integers, FiniteSets

CONSTANTS
    HcTypes,     \* types of content that are used, among json, form, text, multipart, html
    HcRetries,   \* retry counts that are used
    HcSteps      \* bound on the calls
ASSUME HcAssumption == /\ HcTypes \subseteq {"json", "form", "text", "multipart", "html"}
                       /\ HcRetries \subseteq Nat

VARIABLES
    hcC,         \* the clients, "base" and its "clone": their fields
    hcAt,        \* where End is: "idle", "try", "returned"; its tries, and the body and status of the last
    hcGiven,     \* what was given to each client since it last began a request (history)
    hcLeft       \* calls left

hcVars == <<hcC, hcAt, hcGiven, hcLeft>>

HcStrings == {"object", "array", "form", "scalar"}   \* JSON objects, arrays, query strings; others
\* A content is named by its kind: where it goes depends on nothing else.
HcKinds == HcStrings \union {"struct", "slice", "file"}
HcBlank == [method |-> FALSE, force |-> "none", target |-> "json", ctype |-> "none", data |-> {}, slice |-> {},
            raw |-> {}, bounce |-> FALSE, files |-> {}, errs |-> FALSE]
HcNew == [conf |-> HcBlank, enable |-> FALSE, count |-> 0, attempt |-> 0, keep |-> FALSE, on |-> TRUE]
HcIdle == [st |-> "idle", tries |-> 0, body |-> {}, status |-> "none"]

HcInit == /\ hcC = [h \in {"base", "clone"} |-> [HcNew EXCEPT !.on = h = "base"]]
          /\ hcAt = [h \in {"base", "clone"} |-> HcIdle]
          /\ hcGiven = [h \in {"base", "clone"} |-> {}] /\ hcLeft = HcSteps

\* A call on an idle client that changes the request it builds.
HcCall(h) == /\ hcC[h].on /\ hcAt[h].st # "try" /\ hcLeft > 0 /\ hcLeft' = hcLeft - 1
             /\ hcAt' = [hcAt EXCEPT ![h] = HcIdle]
HcSet(h, conf) == hcC' = [hcC EXCEPT ![h].conf = conf]

\* ClearHttpClient: nothing of the last request stays, unless the client is to be kept.
HcCleared(c) == IF c.keep THEN c.conf ELSE HcBlank

(* Get, Post and the other methods begin a request; Retryable stays as it is. *)
HcMethod(h) == /\ HcCall(h) /\ HcSet(h, [HcCleared(hcC[h]) EXCEPT !.method = TRUE, !.errs = FALSE])
               /\ hcGiven' = [hcGiven EXCEPT ![h] = IF hcC[h].keep THEN @ ELSE {}]

(* Type and a Content-Type header; an unknown type is an error.               *)
HcType(h, t) == /\ HcCall(h) /\ UNCHANGED hcGiven
                /\ HcSet(h, IF t = "odd" THEN [hcC[h].conf EXCEPT !.errs = TRUE] ELSE [hcC[h].conf EXCEPT !.force = t])
HcContentType(h, t) == HcCall(h) /\ HcSet(h, [hcC[h].conf EXCEPT !.ctype = t]) /\ UNCHANGED hcGiven

\* SendString: where a string goes, unless an earlier one made the body raw.
HcString(c, kind) ==
    LET raw == [c EXCEPT !.raw = @ \union {kind}]
    IN IF c.bounce THEN raw
       ELSE CASE kind = "object" -> [raw EXCEPT !.data = @ \union {kind}]
              [] kind = "array" -> [raw EXCEPT !.slice = @ \union {kind}]
              [] kind = "form" -> [raw EXCEPT !.data = @ \union {kind}, !.target = "form"]
              [] kind = "scalar" -> [raw EXCEPT !.bounce = TRUE]

(* Send and SendFile; what cannot be marshalled or read is an error.          *)
HcSend(h, kind) ==
    LET c == hcC[h].conf
    IN /\ HcCall(h)
       /\ \/ /\ HcSet(h, CASE kind \in HcStrings -> HcString(c, kind)
                           [] kind = "struct" -> [c EXCEPT !.data = @ \union {kind}]
                           [] kind = "slice" -> [c EXCEPT !.slice = @ \union {kind}]
                           [] kind = "file" -> [c EXCEPT !.files = @ \union {kind}])
             /\ hcGiven' = [hcGiven EXCEPT ![h] = @ \union {kind}]
          \/ kind \in {"struct", "file"} /\ HcSet(h, [c EXCEPT !.errs = TRUE]) /\ UNCHANGED hcGiven

(* Retry and Clone, which share nothing but the http.Client and its transport. *)
HcRetry(h, n) == /\ HcCall(h) /\ UNCHANGED hcGiven
                 /\ hcC' = [hcC EXCEPT ![h].enable = TRUE, ![h].count = n, ![h].attempt = 0]
HcClone == /\ ~hcC["clone"].on /\ HcCall("base")
           /\ hcC' = [hcC EXCEPT !["clone"] = [hcC["base"] EXCEPT !.keep = TRUE]]
           /\ hcGiven' = [hcGiven EXCEPT !["clone"] = hcGiven["base"]]

\* getResponseBytes: the type of the content, a forced one first.
HcTarget(c) == IF c.force \in {"json", "form", "xml", "text", "multipart"} THEN c.force
               ELSE IF c.ctype # "none" THEN c.ctype ELSE c.target

\* Faulty variant: a mix of maps and arrays is left to the marshaller of maps.
HcUnmixed(c) == c.bounce

\* A mix of maps and arrays makes the body raw.
HcMixed(c) == c.bounce \/ (c.data # {} /\ c.slice # {})

\* MakeRequest: the contents that the body carries.
HcBody(c) == CASE c.target = "json" -> IF c.bounce THEN c.raw ELSE IF c.data # {} THEN c.data ELSE c.slice
               [] c.target = "form" -> IF c.bounce \/ c.slice # {} THEN c.raw ELSE c.data
               [] c.target \in {"text", "xml"} -> c.raw
               [] c.target = "multipart" -> (IF c.bounce THEN c.raw ELSE {}) \union c.data \union c.slice \union c.files
               [] OTHER -> {}

\* isRetryableRequest, which returns whether not to retry.
HcAgain(c, status) == c.enable /\ c.attempt < c.count /\ status = "retryable"

(* One round of EndBytes. A request with errors, without method or of a type  *)
(* that has no body is not sent; a failed one is not repeated, and only one   *)
(* whose response cannot be read leaves no error behind.                      *)
HcTry(h, status) ==
    LET old == hcC[h].conf
        c == IF old.errs THEN old ELSE [old EXCEPT !.target = HcTarget(old), !.bounce = HcMixed(old)]
        invalid == c.errs \/ ~c.method \/ c.target = "html"
        result == IF invalid THEN "invalid" ELSE status
        again == HcAgain(hcC[h], result)
    IN /\ hcAt[h].st = "try" /\ (invalid => status = "failed")
       /\ hcC' = [hcC EXCEPT ![h].conf = [c EXCEPT !.errs = @ \/ result \in {"invalid", "failed"}],
                             ![h].attempt = IF again THEN @ + 1 ELSE @]
       /\ hcAt' = [hcAt EXCEPT ![h] = [st |-> IF again THEN "try" ELSE "returned", tries |-> @.tries + IF invalid THEN 0 ELSE 1,
                                       body |-> IF invalid THEN {} ELSE HcBody(c), status |-> result]]
       /\ UNCHANGED <<hcGiven, hcLeft>>

(* End, EndBytes and EndStruct.                                               *)
HcEnd(h) == /\ hcC[h].on /\ hcAt[h].st # "try" /\ hcLeft > 0 /\ hcLeft' = hcLeft - 1
            /\ hcAt' = [hcAt EXCEPT ![h] = [HcIdle EXCEPT !.st = "try"]] /\ UNCHANGED <<hcC, hcGiven>>

HcNext == \/ HcClone
          \/ \E h \in {"base", "clone"} :
               \/ HcMethod(h) \/ HcEnd(h)
               \/ \E t \in HcTypes : HcType(h, t) \/ HcContentType(h, t)
               \/ HcType(h, "odd")
               \/ \E kind \in HcKinds : HcSend(h, kind)
               \/ \E n \in HcRetries : HcRetry(h, n)
               \/ \E status \in {"final", "retryable", "failed", "unread"} : HcTry(h, status)

HcSpec == HcInit /\ [][HcNext]_hcVars

HcSent(h) == hcAt[h].tries > 0 /\ hcAt[h].status # "invalid"

(* Content that was given as strings only reaches the body whatever its mix   *)
(* of JSON objects, arrays, query strings and other text, whatever the type   *)
(* and in every attempt: it is kept twice, parsed and raw. (Structs and       *)
(* slices are not in RawString, and a mix of them sends an empty body.)       *)
HcStringsSent == \A h \in {"base", "clone"} :
    HcSent(h) /\ hcGiven[h] \subseteq HcStrings => hcGiven[h] \subseteq hcAt[h].body

(* A request of a client that is not kept carries nothing of the requests     *)
(* before it.                                                                 *)
HcNoLeftovers == \A h \in {"base", "clone"} : HcSent(h) => hcAt[h].body \subseteq hcGiven[h]

(* End sends a request at most once more than the retries that Retry allowed, *)
(* and gives up on a retryable status only when they are spent, by this       *)
(* request or by earlier ones of the client: no method resets Attempt.        *)
HcRetriesSpent == \A h \in {"base", "clone"} :
    /\ hcAt[h].tries <= 1 + hcC[h].count
    /\ hcAt[h].st = "returned" /\ hcAt[h].status = "retryable" /\ hcC[h].enable => hcC[h].attempt = hcC[h].count

\* One client for request after request (client.go:309-328, 1135-1328): what it was given is sent, nothing of
\* an earlier request is, and the retries are counted.
HcExact == HcStringsSent /\ HcNoLeftovers /\ HcRetriesSpent
=============================================================================
