---- MODULE Pages ----
(***************************************************************************)
(* Static pages: sites with branches in a directory tree, the handler that *)
(* maps a request to a document, and the handler that finds the access     *)
(* rule for it.  The first leaves the site it found in a variable of the   *)
(* request for the second, if the server declares that variable, while     *)
(* sites come and go on the disk.                                          *)
(*                                                                         *)
(* A URI is the sequence of the segments behind its slashes: "/" is <<"">>,*)
(* "/a/" is <<"a", "">>.  What globMatch makes of the patterns of a rule   *)
(* is the subject of Glob; a rule here has the set of pages or branches    *)
(* that its pattern matches.  How the user is known (ID token or refresh)  *)
(* is the subject of SessionTokens.                                        *)
(***************************************************************************)
EXTENDS Integers, Sequences, SequencesExt, FiniteSetsExt, AccessRules

CONSTANTS
    Segments,       \* names in a request's path, "" among them
    BranchOf,       \* the segments "@<name>" with the branch they name
    MaxSegments,    \* bound: segments of a request's path
    SiteDirs,       \* directories that may hold a .site.json
    AccessOf,       \* what a .site.json may say: its access rules, by a name for it
    Principals,     \* users
    Names,          \* user names and roles
    DefaultBranch, MaxDepth, Policy,   \* conf.pages...
    Deployments,    \* settings of conf.pagesMinDepth and of the server
    None

RootSite == "__ROOT__"

Branches == {BranchOf[s] : s \in DOMAIN BranchOf}

ASSUME SegmentsAssumption ==
    DOMAIN BranchOf \subseteq Segments \ {""} /\ "" \in Segments /\ MaxSegments \in Nat
ASSUME BranchAssumption == DefaultBranch \in Branches
\* declared: whether js_var declares $pages_site_root_uri, which no snippet of this
\* repository does.
ASSUME DepthAssumption ==
    Deployments \subseteq [minDepth : Nat, declared : BOOLEAN] /\ MaxDepth \in Nat \ {0}
ASSUME DirsAssumption == \A dir \in SiteDirs :
    dir \in Seq((Segments \cup {RootSite}) \ ({""} \cup DOMAIN BranchOf))
ASSUME PrincipalsAssumption == Principals \subseteq Principal(Names) /\ None \notin Principals
ASSUME PolicyAssumption == Policy \in Names \cup BasicRoles \cup {"DENY"}

Paths == UNION {[1 .. n -> Segments] : n \in 1 .. MaxSegments}

\* The access rules of a site: for the branches they are for, a list of rules for
\* pages.  (An absent list is an empty one.)
PageRule == [pages : SUBSET Paths, allow : SUBSET (Names \cup BasicRoles),
             deny : SUBSET (Names \cup BasicRoles)]
BranchRules == [branches : SUBSET Branches, rules : Seq(PageRule)]
Configs == DOMAIN AccessOf
ASSUME ConfigsAssumption == \A config \in Configs : AccessOf[config] \in Seq(BranchRules)

\* $request_uri, with or without arguments.
Requests == [path : Paths, args : BOOLEAN]

-----------------------------------------------------------------------------
(* pages.ts *)

\* The directory a path leads to: empty segments are skipped.  Its nth name is the one
\* that n of them end with.
DirOf(path) ==
    LET named == {i \in DOMAIN path : path[i] # ""}
    IN  [n \in 1 .. Cardinality(named) |->
           path[CHOOSE i \in named : Cardinality({j \in named : j <= i}) = n]]

\* The prefixes of the path that the loop over subdirs meets.  The arguments
\* are part of the last segment, which therefore names no directory.
Prefix(req, depth) == SubSeq(req.path, 1, depth)
IsDir(req, depth) == ~(req.args /\ depth = Len(req.path))

\* split(requestUri, maxDepth + 1), and how far the two loops go.
Subdirs(req) == 1 + Min({Len(req.path), MaxDepth})
SiteDepths(req, minDepth) == minDepth .. Subdirs(req) - 1

\* Mutant: the second loop goes as deep as the first.
RootSiteDepths_AsDeep(req, minDepth) == minDepth .. Subdirs(req) - 1

RootSiteDepths(req, minDepth) == minDepth .. Min({Subdirs(req), MaxDepth - 1}) - 1

\* A site on the way wins, the one next to the root first; then a root site.
FindSiteRootUri(req, disk, minDepth) ==
    LET isSite(dir) == dir \in SiteDirs /\ disk[dir] # None
        found == {depth \in SiteDepths(req, minDepth) :
            IsDir(req, depth) /\ isSite(DirOf(Prefix(req, depth)))}
        foundRoot == {depth \in RootSiteDepths(req, minDepth) :
            IsDir(req, depth)
              /\ isSite(DirOf(Prefix(req, depth)) \o <<RootSite>>)}
    IN  CASE found # {} -> Prefix(req, Min(found))
          [] found = {} /\ foundRoot # {} ->
               Prefix(req, Min(foundRoot)) \o <<RootSite>>
          [] OTHER -> None

\* Mutant: a root site is cut off as if it were in the request.
SitePrefix_WithRoot(siteRootUri) == siteRootUri

\* The part of the site's URI that is in the request.
SitePrefix(siteRootUri) ==
    IF siteRootUri # <<>> /\ Last(siteRootUri) = RootSite
    THEN Front(siteRootUri) ELSE siteRootUri

\* Mutant: a branch without a slash behind it counts.
NamesBranch_Bare(page) == page[1] \in DOMAIN BranchOf

NamesBranch(page) == page[1] \in DOMAIN BranchOf /\ Len(page) > 1

SplitUri(req, siteRootUri) ==
    LET rest == SubSeq(req.path, Len(SitePrefix(siteRootUri)) + 1,
                       Len(req.path))
        page == IF rest = <<>> THEN <<"">> ELSE rest
    IN  IF NamesBranch(page)
        THEN [branch |-> BranchOf[page[1]], page |-> Tail(page)]
        ELSE [branch |-> DefaultBranch, page |-> page]

\* Mutant: the last one overrides those before it.
FirstOf_Last(list, matching) == IF matching = {} THEN None ELSE list[Max(matching)]

\* Array.find: the first of the entries that match.
FirstOf(list, matching) == IF matching = {} THEN None ELSE list[Min(matching)]

Fallback == [allow |-> IF Policy = "DENY" THEN {} ELSE {Policy}, deny |-> {}]

\* Only the first entry for the branch is searched, and its first rule for the
\* page decides.
ResolveAccessRule(access, branch, page) ==
    LET entry == FirstOf(access, {i \in DOMAIN access : branch \in access[i].branches})
        rules == entry.rules
        rule == FirstOf(rules, {j \in DOMAIN rules : page \in rules[j].pages})
    IN  IF entry = None THEN Fallback
        ELSE IF rule = None THEN Fallback
        ELSE [allow |-> rule.allow, deny |-> rule.deny]

-----------------------------------------------------------------------------
VARIABLES
    sites,      \* the disk: .site.json by directory, or None
    server,     \* the deployment
    request,    \* $request_uri
    pc,         \* "start", "mapped", "deciding" (awaits the user), "done"
    siteVar,    \* $pages_site_root_uri, None until it is set
    document,   \* what pages_document_uri returned
    split,      \* the branch and page the access rule was chosen for
    read,       \* history: the directory and contents of the .site.json read
    rule,       \* the access rule, while auth_pages awaits the user
    user,       \* history: the user of the request, None if anonymous
    status      \* the answer of auth_pages

vars == <<sites, server, request, pc, siteVar, document, split, read, rule, user, status>>

Init ==
    /\ sites \in [SiteDirs -> Configs \cup {None}]
    /\ server \in Deployments
    /\ request \in Requests
    /\ pc = "start"
    /\ siteVar = None /\ document = None /\ split = None
    /\ read = None /\ rule = None /\ user = None
    /\ status = 0

TypeOK ==
    /\ sites \in [SiteDirs -> Configs \cup {None}]
    /\ server \in Deployments
    /\ request \in Requests
    /\ pc \in {"start", "mapped", "deciding", "done"}
    /\ siteVar = None \/ DirOf(siteVar) \in SiteDirs
    /\ split = None \/ (split.branch \in Branches /\ split.page \in Paths)
    /\ rule = None \/ rule \in AccessRule(Names)
    /\ user \in Principals \cup {None}
    /\ status \in {0, 204, 401, 403, 404, 500}

-----------------------------------------------------------------------------
(* The handlers *)

\* "@" and the branch, as a segment of the document's path.
AtSegment(branch) == CHOOSE s \in DOMAIN BranchOf : BranchOf[s] = branch

EndsWithSlash(req) == Last(req.path) = "" /\ ~req.args

DocumentUri(req, siteRootUri) ==
    LET s == SplitUri(req, siteRootUri)
    IN  siteRootUri \o <<AtSegment(s.branch)>> \o
          (IF EndsWithSlash(req) THEN Front(s.page) \o <<"index.html">>
           ELSE s.page)

\* pages_document_uri, the value of an nginx variable.  A document root that does
\* not exist holds no site.  The site is left in $pages_site_root_uri, unless that
\* is not declared.
MapDocument ==
    /\ pc = "start" /\ pc' = "mapped"
    /\ LET site == FindSiteRootUri(request, sites, server.minDepth)
       IN  /\ siteVar' = IF server.declared THEN site ELSE None
           /\ document' = IF site = None THEN None ELSE DocumentUri(request, site)
    /\ UNCHANGED <<sites, server, request, split, read, rule, user, status>>

\* Mutant: the site is searched again.
AuthorizedSite_SearchedAgain == FindSiteRootUri(request, sites, server.minDepth)

\* auth_pages takes the site that pages_document_uri left, if any.
AuthorizedSite == IF siteVar # None THEN siteVar
                  ELSE FindSiteRootUri(request, sites, server.minDepth)

\* 404 without a site; 500 if its .site.json has gone since it was found.
AuthorizeNoSite ==
    LET site == AuthorizedSite
    IN  /\ pc \in {"start", "mapped"} /\ pc' = "done"
        /\ \/ site = None /\ status' = 404
           \/ site # None /\ sites[DirOf(site)] = None /\ status' = 500
        /\ UNCHANGED <<sites, server, request, siteVar, document, split, read, rule, user>>

\* auth_pages up to its first await.
AuthorizePage ==
    LET site == AuthorizedSite
        dir == DirOf(site)
        s == SplitUri(request, site)
    IN  /\ pc \in {"start", "mapped"} /\ pc' = "deciding"
        /\ site # None /\ sites[dir] # None
        /\ read' = [dir |-> dir, config |-> sites[dir]]
        /\ split' = s
        /\ rule' = ResolveAccessRule(AccessOf[sites[dir]], s.branch, s.page)
        /\ UNCHANGED <<sites, server, request, siteVar, document, user, status>>

\* The user is known (authorizeAccess), or there is none.
Decide(principal) ==
    /\ pc = "deciding" /\ pc' = "done"
    /\ user' = principal
    /\ status' = IF IsAllowed(principal, rule) THEN 204 ELSE 403
    /\ UNCHANGED <<sites, server, request, siteVar, document, split, read, rule>>

DecideAnonymous ==
    /\ pc = "deciding" /\ pc' = "done"
    /\ status' = IF IsAnonymousAllowed(rule) THEN 204 ELSE 401
    /\ UNCHANGED <<sites, server, request, siteVar, document, split, read, rule, user>>

\* A site is published, changed or withdrawn.  What was on the disk before the
\* first handler is up to Init, and after auth_pages nothing of it is read.
Publish(dir, config) ==
    /\ pc = "mapped" /\ sites[dir] # config
    /\ sites' = [sites EXCEPT ![dir] = config]
    /\ UNCHANGED <<server, request, pc, siteVar, document, split, read, rule, user, status>>

Next ==
    \/ MapDocument \/ AuthorizeNoSite \/ AuthorizePage
    \/ \E principal \in Principals : Decide(principal)
    \/ DecideAnonymous
    \/ \E dir \in SiteDirs, config \in Configs \cup {None} : Publish(dir, config)

Spec == Init /\ [][Next]_vars

-----------------------------------------------------------------------------
(* Properties *)

\* A document's site, branch and page, by the first "@" in its path.
Owner(doc) ==
    LET at == Min({i \in DOMAIN doc : doc[i] \in DOMAIN BranchOf})
        page == SubSeq(doc, at + 1, Len(doc))
    IN  [dir |-> DirOf(SubSeq(doc, 1, at - 1)),
         branch |-> BranchOf[doc[at]],
         page |-> IF EndsWithSlash(request) THEN Front(page) \o <<"">> ELSE page]

\* Whether the search still leads to the document.
StillFound == LET site == FindSiteRootUri(request, sites, server.minDepth)
              IN  site # None /\ document = DocumentUri(request, site)

\* Who gets a document gets it under the rule that the document's own site has
\* for its own branch and page: where $pages_site_root_uri is declared, whatever
\* was published or withdrawn since the site was found, and where it is not, as
\* long as that left the site the one to be found.  (No longer: there, a site that
\* is published in between judges the documents of another one.)
ServedUnderItsRule ==
    status = 204 /\ document # None /\ (server.declared \/ StillFound) =>
        LET owner == Owner(document)
        IN  /\ read.dir = owner.dir
            /\ rule = ResolveAccessRule(AccessOf[read.config], owner.branch, owner.page)

\* The site, branch and page a request is split into are the request's path, no
\* segment lost or taken twice, whatever its empty segments and root sites; the
\* branch it names is never taken for a page, nor a page for a branch.
SplitLosesNothing == split # None => \E k \in 0 .. Len(request.path) :
    LET dir == DirOf(SubSeq(request.path, 1, k))
        rest == SubSeq(request.path, k + 1, Len(request.path))
        named == rest # <<>> /\ rest[1] \in DOMAIN BranchOf /\ Len(rest) > 1
    IN  /\ read.dir \in {dir, dir \o <<RootSite>>}
        /\ CASE rest = <<>> -> split.page = <<"">> /\ split.branch = DefaultBranch
             [] named -> split.page = Tail(rest) /\ split.branch = BranchOf[rest[1]]
             [] OTHER -> split.page = rest /\ split.branch = DefaultBranch

\* With the policy DENY a page is served only if the first rule about it, in the
\* first entry for its branch, lets this user in: no rule further down opens what
\* that one keeps closed, and what no rule is about is for nobody ("denies all",
\* pages.ts).
ServedByARule == status = 204 /\ Policy = "DENY" =>
    LET access == AccessOf[read.config]
        names == Identities(user)
    IN  \E i \in DOMAIN access :
            /\ split.branch \in access[i].branches
            /\ \A before \in 1 .. i - 1 : split.branch \notin access[before].branches
            /\ \E j \in DOMAIN access[i].rules :
                LET r == access[i].rules[j]
                IN  /\ split.page \in r.pages
                    /\ \A before \in 1 .. j - 1 : split.page \notin access[i].rules[before].pages
                    /\ IF user = None THEN "ANONYMOUS" \in r.allow \ r.deny
                       ELSE names \cap r.deny = {} /\ r.allow \cap (names \cup BasicRoles) # {}

\* "Descend at most N levels of directories below rootDir when looking for the
\* site root", "don't look for the site root at levels less than N" (pages.ts):
\* also for root sites; but an empty segment of the request, a final slash or a
\* doubled one, counts as a level, and so does a root site it names itself.
DepthsRespected == read # None =>
    /\ Len(read.dir) <= MaxDepth
    /\ LET level == Len(SitePrefix(read.dir))
           extra == {i \in DOMAIN request.path : request.path[i] \in {"", RootSite}}
       IN  level + Cardinality(extra) >= server.minDepth

====
