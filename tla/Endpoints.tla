----------------------------- MODULE Endpoints ------------------------------
(***************************************************************************)
(* The routes of the site, ar-ws/endpoints.c, in the order in which        *)
(* register_all_endpoints adds them to the router.                         *)
(***************************************************************************)
EXTENDS Router

main == "alrigroup.com"
dev == "dev.alrigroup.com"
prsm == "prsm.alrigroup.com"
cdn == "cdn.alrigroup.com"

\* The calls of add_route; a handler is named by its function.
On(domain, method, path, handler) ==
    [path |-> path, method |-> method, domain |-> domain, handler |-> handler]
Page(path, handler) == On(main, "GET", path, handler)

\* Wrong: the domain is forgotten in the call.
ApiAnyDomain(method, path) == On(NoHost, method, path, path)

Api(method, path) == On(main, method, path, path)   \* one function for each path

Endpoints == <<
    Page("/", "home_handler"), Page("/home", "home_handler"),
    Page("/manager/login", "manager_login_handler"),
    Page("/manager/dashboard", "manager_dashboard_handler"),
    Page("/manager/api/component/*", "api_component_handler"),
    Api("POST", "/manager/api/login"), Api("POST", "/manager/api/logout"),
    Api("GET", "/manager/api/metrics"), Api("GET", "/manager/api/ips"),
    Api("GET", "/manager/api/logs"),
    Api("GET", "/manager/api/admin/list"), Api("POST", "/manager/api/admin/create"),
    Api("POST", "/manager/api/admin/role"), Api("POST", "/manager/api/admin/delete"),
    Api("GET", "/manager/api/admin/audit"), Api("POST", "/manager/api/admin/audit/clear"),
    Api("POST", "/manager/api/admin/update"), Api("POST", "/manager/api/sync/batch"),
    Api("GET", "/manager/api/config"), Api("POST", "/manager/api/system/restart"),
    Api("GET", "/manager/api/system/info"), Api("GET", "/manager/api/hashes"),
    Api("POST", "/manager/api/upload"), Api("POST", "/manager/api/delete"),
    Api("GET", "/api/data"),
    On(dev, "GET", "/arcwb/sitemap", "sitemap_handler"),
    On(prsm, "GET", "/", "prsm_handler"), Page("/prsm", "prsm_handler"),
    On(cdn, "GET", "/*", "cdn_handler"),
    Api("GET", "/manager/api/cdn/files"), Api("POST", "/manager/api/cdn/upload"),
    Api("POST", "/manager/api/cdn/link"), Api("POST", "/manager/api/cdn/delete"),
    Api("POST", "/manager/api/cdn/mkdir"), Api("GET", "/manager/api/cdn/stats"),
    Api("POST", "/manager/api/cdn/rename"),
    On(NoHost, "GET", "/*", "static_handler")>>

register_all_endpoints ==
    /\ Len(registered) < Len(Endpoints)
    /\ add_route(Endpoints[Len(registered) + 1])

SiteSpec == Init /\ [][register_all_endpoints]_vars

Serving == Len(registered) = Len(Endpoints)

-----------------------------------------------------------------------------
\* The hosts the site's endpoints name.
SiteDomain == {main, dev, prsm, cdn}

\* What the endpoints need of the constants: they are routes, requested paths
\* begin with a slash, and "www." is dropped from one host for each, none of
\* the site's own names beginning with it.
SiteConstants ==
    /\ Endpoints \in Seq(Route) /\ SiteDomain \subseteq Host
    /\ \A p \in Path : <<"/*", p>> \in Covers
    /\ \A d \in SiteDomain, h \in Host : <<d, h>> \notin Www
    /\ \A d, e \in SiteDomain, h \in Host : <<h, d>> \in Www /\ <<h, e>> \in Www => d = e

\* The endpoints of the host a request names.
OwnEndpoints(q) == {i \in DOMAIN Endpoints :
    Endpoints[i].domain # NoHost /\ domain_matches(Endpoints[i].domain, q.host)}

\* Once all routes are added, no endpoint is shadowed by a later one or by a
\* wildcard and none answers on another domain than its own.  A host without
\* endpoints is not refused, as docs.md has it: a GET gets the static handler,
\* whose route names no domain, and only other methods get 404.  The
\* exception is a request for the text "/*" itself: on the CDN's host too it is
\* the exact path of the static route, which was added last.
SiteRouting ==
    Serving => \A q \in Request :
        /\ \A i \in OwnEndpoints(q) :
               Endpoints[i].path = q.path /\ Endpoints[i].method = q.method /\ q.path # "/*"
                   => router_dispatch(q) = Endpoints[i].handler
        /\ router_dispatch(q) \in {Endpoints[i].handler : i \in OwnEndpoints(q)}
                                 \cup {IF q.method = "GET" THEN "static_handler" ELSE NotFound}

\* docs.md, of the hosts a request names: "all others -> 404", a "Strict
\* whitelist".
OtherHostsRefused ==
    Serving => \A q \in Request : OwnEndpoints(q) = {} => router_dispatch(q) = NotFound
=============================================================================
