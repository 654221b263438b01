----------------------------- MODULE CookieJar ------------------------------
(***************************************************************************)
(* The cookie jar (phases/06-application-protocols/                        *)
(* 28-cookies-and-session-management/cookie.c).                            *)
(*                                                                         *)
(* A domain is the sequence of its labels from the top down and whether it *)
(* is written with a leading dot; a path is the sequence of its segments   *)
(* and whether it ends in a slash.  Domains are compared without regard to *)
(* case only, so a label stands for all its spellings.  Names and values   *)
(* are one character long.  Max-Age is -1 for "not set".                   *)
(***************************************************************************)
EXTENDS Integers, Sequences, SequencesExt

CONSTANTS
    Name, Value,
    Domains, Paths,     \* what cookies are set with
    Hosts, Targets,     \* domains and paths of requests
    Ages,               \* values of Max-Age
    Capacity,           \* NFS_COOKIE_JAR_MAX
    OutSizes            \* sizes of the caller's header buffer

CookieJarConstants ==
    /\ Capacity \in Nat /\ Ages \subseteq Int /\ OutSizes \subseteq Nat \ {0}
    /\ \A d \in Domains \cup Hosts : d.dot \in BOOLEAN
    /\ \A p \in Paths \cup Targets : p.slash \in BOOLEAN

VARIABLES
    cookies,  \* the first count elements of the array
    latest    \* history: key -> the cookie the jar took last, until it expired

vars == <<cookies, latest>>

Cookie == [name : Name, domain : Domains, path : Paths, value : Value, max_age : Ages]
Key(c) == <<c.name, c.domain, c.path>>

\* nfs_cookie_jar_init.
Init == cookies = <<>> /\ latest = <<>>

\* Mutant: the path is not compared.
SameCookieAnyPath(c, d) == c.name = d.name /\ c.domain = d.domain

\* The comparison of nfs_cookie_jar_add and nfs_cookie_jar_lookup.
SameCookie(c, d) == c.name = d.name /\ c.domain = d.domain /\ c.path = d.path

\* The first index with the name, domain and path of c, if any.
Find(c) == {i \in DOMAIN cookies : /\ SameCookie(cookies[i], c)
                                   /\ \A j \in 1..(i - 1) : ~SameCookie(cookies[j], c)}

\* nfs_cookie_jar_add; -1 when a new cookie finds the jar full.
JarAdd(c) ==
    /\ \/ /\ Find(c) # {}
          /\ cookies' = [i \in DOMAIN cookies |-> IF i \in Find(c) THEN c ELSE cookies[i]]
       \/ /\ Find(c) = {} /\ Len(cookies) < Capacity
          /\ cookies' = Append(cookies, c)
    /\ latest' = [k \in DOMAIN latest \cup {Key(c)} |-> IF k = Key(c) THEN c ELSE latest[k]]

\* The last cookie takes the place of the removed one.
Without(s, i) == SubSeq([s EXCEPT ![i] = s[Len(s)]], 1, Len(s) - 1)

\* The cookie that was moved into the hole is looked at next.
AfterRemoval(i) == i

\* One turn of the loop of nfs_cookie_jar_expire: the array and the index after it.
ExpireTurn(c) ==
    IF c.i > Len(c.array) THEN c
    ELSE IF c.array[c.i].max_age = 0 THEN [array |-> Without(c.array, c.i), i |-> AfterRemoval(c.i)]
    ELSE [c EXCEPT !.i = @ + 1]

\* The loop, which takes as many turns as there are cookies.
Expired(s) ==
    LET turns[n \in 0..Len(s)] ==
            IF n = 0 THEN [array |-> s, i |-> 1] ELSE ExpireTurn(turns[n - 1])
    IN turns[Len(s)].array

JarExpire ==
    /\ cookies' = Expired(cookies)
    /\ latest' = [k \in {j \in DOMAIN latest : latest[j].max_age # 0} |-> latest[k]]

Next == JarExpire \/ \E c \in Cookie : JarAdd(c)

Spec == Init /\ [][Next]_vars

NoDomain == [dot |-> FALSE, labels |-> <<>>]

\* domain_matches: equal, or a suffix of the request's domain that begins at a
\* dot, its own or the one before it.  ".com" is no suffix of "com".
DomainMatches(cookie_domain, request_domain) ==
    \/ cookie_domain = NoDomain
    \/ cookie_domain = request_domain
    \/ /\ IsPrefix(cookie_domain.labels, request_domain.labels)
       /\ \/ Len(request_domain.labels) > Len(cookie_domain.labels)
          \/ request_domain.dot /\ ~cookie_domain.dot

\* path_matches: a prefix after which the request's path ends or a segment
\* begins.  "/x/" is no prefix of "/x".
PathMatches(cookie_path, request_path) ==
    /\ IsPrefix(cookie_path.segments, request_path.segments)
    /\ cookie_path.slash => \/ Len(request_path.segments) > Len(cookie_path.segments)
                            \/ request_path.slash

IsSent(c, domain, path) ==
    DomainMatches(c.domain, domain) /\ PathMatches(c.path, path) /\ c.max_age # 0

\* "n=v; n=v" for n cookies.
HeaderLen(n) == IF n = 0 THEN 0 ELSE 3 * n + 2 * (n - 1)

\* nfs_cookie_build_header: the cookies it names, in the order of the jar; not
\* ok, -1, as soon as one more would not leave room for the NUL.
BuildHeader(domain, path, out_sz) ==
    LET Added(h, c) == IF HeaderLen(Len(h.cookies) + 1) < out_sz
                       THEN [h EXCEPT !.cookies = Append(@, c)]
                       ELSE [h EXCEPT !.ok = FALSE]
        built[n \in 0..Len(cookies)] ==
            IF n = 0 THEN [ok |-> TRUE, cookies |-> <<>>]
            ELSE IF built[n - 1].ok /\ IsSent(cookies[n], domain, path)
            THEN Added(built[n - 1], cookies[n]) ELSE built[n - 1]
    IN built[Len(cookies)]

-----------------------------------------------------------------------------
TypeOK == cookies \in Seq(Cookie) /\ Len(cookies) <= Capacity

\* A request carries each cookie once, with the value set last, and all the
\* cookies of its domain and path that have not expired, or the caller is told
\* that they do not fit: never a part of them.
HeaderIsCurrent ==
    \A domain \in Hosts, path \in Targets, out_sz \in OutSizes :
        LET header == BuildHeader(domain, path, out_sz)
            due == {latest[k] : k \in {j \in DOMAIN latest : IsSent(latest[j], domain, path)}}
        IN /\ header.ok <=> due = {} \/ HeaderLen(Cardinality(due)) < out_sz
           /\ header.ok => Range(header.cookies) = due /\ IsInjective(header.cookies)

\* The jar holds what was set and not expired, and nothing else: a sweep
\* leaves no cookie behind.
JarIsExact == Range(cookies) = {latest[k] : k \in DOMAIN latest} /\ IsInjective(cookies)
=============================================================================
