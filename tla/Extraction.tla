------------------------------ MODULE Extraction ------------------------------
(***************************************************************************)
(* How one article is obtained: the bounded fetch of bounded_http.py, the  *)
(* two extractors of extractor.py, and what ingestion/service.py           *)
(* _ingest_candidate and _finalize_extracted make of their results.        *)
(* Servers and name resolution may answer anew at every request.           *)
(***************************************************************************)
EXTENDS Naturals

CONSTANT MaxRedirects   \* MAX_REDIRECTS

ASSUME ExtractionAssumption == MaxRedirects \in Nat

VARIABLES
  stage,            \* where the handler is
  hops,             \* redirect_hops of the request under way
  requests,         \* requests sent by the primary extractor
  primary,          \* how the primary extractor ended
  crawls,           \* calls of the fallback extractor
  extracted,        \* the extracted article: "none" or a quality
  outcome           \* article, or the error_code of the attempt

extraction == <<stage, hops, requests, primary, crawls, extracted, outcome>>

\* "untitled" and "short" are what should_use_fallback looks for.
Quality == {"good", "untitled", "short"}
Codes   == {"invalid_url", "extraction_failed", "missing_title",
            "missing_published_at", "content_too_short", "relevance_rejected",
            "unexpected_error"}

ExtractionTypeOK ==
  /\ stage \in {"start", "pin", "answer", "second", "rescue", "finalize", "done"}
  /\ hops \in 0..MaxRedirects
  /\ requests \in Nat
  /\ primary \in {"none", "refused", "failed"} \cup Quality
  /\ crawls \in Nat
  /\ extracted \in {"none"} \cup Quality
  /\ outcome \in {"none", "article"} \cup Codes

ExtractionInit ==
  /\ stage = "start"
  /\ hops = 0 /\ requests = 0 /\ crawls = 0
  /\ primary = "none" /\ extracted = "none" /\ outcome = "none"

End(code) == stage' = "done" /\ outcome' = code

-----------------------------------------------------------------------------
\* canonicalize_url of the candidate, and again in bounded_fetch.  A URL that
\* urlparse or the name resolution cannot read raises an exception that is no
\* UrlValidationError: only the callers of _ingest_candidate catch it.
Begin ==
  /\ stage = "start"
  /\ \/ stage' = "pin" /\ UNCHANGED outcome
     \/ \E code \in {"invalid_url", "unexpected_error"} : End(code)
  /\ UNCHANGED <<hops, requests, primary, crawls, extracted>>

\* Mutant: a refused URL is one more failure of the primary extractor.
RefuseTried ==
  /\ stage' = "rescue"
  /\ primary' = "refused"
  /\ UNCHANGED <<hops, requests, crawls, extracted, outcome>>

\* UrlValidationError of the primary extractor: terminal.
Refuse ==
  /\ End("invalid_url")
  /\ primary' = "refused"
  /\ UNCHANGED <<hops, requests, crawls, extracted>>

\* Any other exception of the primary extractor.
Fail ==
  /\ stage' = "rescue"
  /\ primary' = "failed"
  /\ UNCHANGED <<hops, requests, crawls, extracted, outcome>>

\* _pin_to_validated_address, then the request is sent.
Pin ==
  /\ stage = "pin"
  /\ \/ /\ stage' = "answer"
        /\ requests' = requests + 1
        /\ UNCHANGED <<hops, primary, crawls, extracted, outcome>>
     \/ Refuse

\* Mutant: one redirect too many is followed.
LastHopLate == hops > MaxRedirects

LastHop == hops >= MaxRedirects

\* A redirect: its target is canonicalized before the hops are counted.
Redirected ==
  /\ stage = "answer"
  /\ \/ Refuse
     \/ LastHop /\ Fail
     \/ /\ ~LastHop
        /\ hops' = hops + 1
        /\ stage' = "pin"
        /\ UNCHANGED <<requests, primary, crawls, extracted, outcome>>

\* A timeout, a network error, a redirect to nowhere or to what does not parse
\* as a URL, a body beyond the limit or a status that is no success.
Unanswered == stage = "answer" /\ Fail

\* A page; the fallback is asked too if it lacks a title or enough text.
Answered(quality) ==
  /\ stage = "answer"
  /\ primary' = quality
  /\ extracted' = quality
  /\ stage' = IF quality = "good" THEN "finalize" ELSE "second"
  /\ UNCHANGED <<hops, requests, crawls, outcome>>

-----------------------------------------------------------------------------
\* _fallback_extractor_if_safe: without a valid URL the fallback is not asked.
\* Its ExtractionFailedError is swallowed, any other exception goes to the
\* handler of the primary's, which asks the fallback once more.
SecondOpinion ==
  /\ stage = "second"
  /\ \/ stage' = "finalize" /\ UNCHANGED <<crawls, extracted>>
     \/ /\ crawls' = crawls + 1
        /\ \/ stage' = "finalize" /\ extracted' \in Quality \cup {extracted}
           \/ stage' = "rescue" /\ UNCHANGED extracted
  /\ UNCHANGED <<hops, requests, primary, outcome>>

Rescue ==
  /\ stage = "rescue"
  /\ \/ End("extraction_failed") /\ crawls' \in {crawls, crawls + 1} /\ UNCHANGED extracted
     \/ /\ crawls' = crawls + 1
        /\ stage' = "finalize"
        /\ extracted' \in Quality
        /\ UNCHANGED outcome
  /\ UNCHANGED <<hops, requests, primary>>

\* _finalize_extracted: title, publication date, length, relevance, and the
\* insert, which may refuse a value that its column does not take.
Finalize ==
  /\ stage = "finalize"
  /\ CASE extracted = "untitled" -> End("missing_title")
       [] extracted = "short" ->
            \E code \in {"missing_published_at", "content_too_short"} : End(code)
       [] OTHER ->
            \E code \in {"missing_published_at", "relevance_rejected", "article",
                       "unexpected_error"} : End(code)
  /\ UNCHANGED <<hops, requests, primary, crawls, extracted>>

ExtractionNext ==
  \/ Begin \/ Pin \/ Redirected \/ Unanswered
  \/ \E quality \in Quality : Answered(quality)
  \/ SecondOpinion \/ Rescue \/ Finalize

ExtractionSpec == ExtractionInit /\ [][ExtractionNext]_extraction

-----------------------------------------------------------------------------
\* A chain of MaxRedirects redirects is followed to its end and no longer one
\* is: the request under way is number hops + 1 (bounded_fetch counts hops,
\* and the first request is none).
RedirectsBounded ==
  /\ requests <= MaxRedirects + 1
  /\ stage = "answer" => requests = hops + 1
  /\ primary \in Quality => requests = hops + 1

\* A URL refused to the primary extractor is terminal, "never a trigger for a
\* fallback extractor" (patterns.md:35).
RefusalIsFinal == primary = "refused" => outcome = "invalid_url" /\ crawls = 0

\* An article has a title and text, whichever extractor they come from; and
\* the fallback never costs one: what the primary extracted well is kept, and
\* after a page that lacked something extraction fails only if the fallback
\* was broken.  It is asked twice at most, for all its nested handlers.
LadderSound ==
  /\ outcome = "article" => extracted = "good"
  /\ primary = "good" => crawls = 0 /\ extracted = "good"
  /\ outcome = "extraction_failed" => primary = "failed" \/ crawls > 0
  /\ crawls <= 2 /\ (primary = "failed" => crawls <= 1)

ExtractionSound == RedirectsBounded /\ RefusalIsFinal /\ LadderSound
=============================================================================
