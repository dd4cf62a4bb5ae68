------------------------------ MODULE Download ------------------------------
(***************************************************************************)
(* The downloads of one acquisition, one after the other                    *)
(* (fetcher/network/download.rs, fetcher/network/url_policy.rs, the         *)
(* counters of fetcher/budget.rs).  A request is redirected up to           *)
(* MaxRedirects times, each target checked against the policy again, and    *)
(* ends with a body or an error.  Requests and bytes are counted over the   *)
(* whole acquisition.  Any step may also fail, which ends the acquisition:  *)
(* that is up to the module that composes this one.                         *)
(***************************************************************************)
EXTENDS Naturals

CONSTANTS
    Urls,
    MaxRedirects,   \* max_redirect_hops
    MaxRequests,    \* max_network_requests
    MaxResponse,    \* max_archive_size
    MaxDownloaded,  \* bytes of all responses together
    None

Request == [from: Urls, url: Urls, redirects: 0..MaxRedirects]

ASSUME DownloadAssumption ==
    /\ None \notin Urls \cup Request
    /\ MaxRedirects \in Nat
    /\ MaxRequests \in Nat
    /\ MaxResponse \in Nat
    /\ MaxDownloaded \in Nat

VARIABLES
    allowed,     \* the URLs the policy lets through
    request,     \* the download under way: what was asked for, where it is now
    requests,    \* budget.requests
    downloaded   \* budget.downloaded_bytes

downloadVars == <<allowed, request, requests, downloaded>>

DownloadTypeOK ==
    /\ allowed \subseteq Urls
    /\ request \in Request \cup {None}
    /\ requests \in 0..MaxRequests
    /\ downloaded \in 0..MaxDownloaded

DownloadInit ==
    /\ request = None
    /\ requests = 0
    /\ downloaded = 0

\* Mutation of Permitted: nothing is checked.
PermittedAny(url) == url \in Urls

Permitted(url) == url \in allowed

Ask(url) ==
    /\ request = None
    /\ Permitted(url)
    /\ request' = [from |-> url, url |-> url, redirects |-> 0]
    /\ UNCHANGED <<allowed, requests, downloaded>>

Send ==
    /\ request # None
    /\ requests < MaxRequests
    /\ requests' = requests + 1

\* Mutation of Redirect: hops are not counted, nor requests.
RedirectFreely(target) ==
    /\ request # None
    /\ Permitted(target)
    /\ request' = [request EXCEPT !.url = target]
    /\ UNCHANGED <<allowed, requests, downloaded>>

Redirect(target) ==
    /\ Send
    /\ request.redirects < MaxRedirects
    /\ Permitted(target)
    /\ request' = [request EXCEPT !.url = target, !.redirects = @ + 1]
    /\ UNCHANGED <<allowed, downloaded>>

\* Mutation of Receive: only the single response is limited.
ReceiveOne(bytes) ==
    /\ Send
    /\ bytes <= MaxResponse
    /\ request' = None
    /\ downloaded' = downloaded + bytes
    /\ UNCHANGED allowed

Receive(bytes) ==
    /\ Send
    /\ bytes <= MaxResponse
    /\ downloaded + bytes <= MaxDownloaded
    /\ request' = None
    /\ downloaded' = downloaded + bytes
    /\ UNCHANGED allowed
==============================================================================
