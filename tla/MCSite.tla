------------------------------- MODULE MCSite -------------------------------
(***************************************************************************)
(* The accounts, what the server tells of itself, the downloads, the files *)
(* of the site and the table of its routes share no state: one of them     *)
(* moves in each behaviour, and of what the server tells, the log, the     *)
(* counters of the routes or the CPU.                                      *)
(*                                                                         *)
(* Three users and two requests, a ring of three lines, three counters, a  *)
(* clock of three ticks, 4-bit words, three uploads of two blocks, paths   *)
(* of up to three parts.                                                   *)
(***************************************************************************)
EXTENDS Endpoints, Accounts, Telemetry, Serving, WebFiles, TLC

CONSTANT Focus  \* the parts that may move

VARIABLE focus

(* The table of the site's routes, with all its paths, a name no route has  *)
(* and a host no route names, in a table of one bucket.                     *)
SiteManager == {"/manager/login", "/manager/dashboard", "/manager/api/component/*"}
SiteApi == {"/manager/api/login", "/manager/api/logout", "/manager/api/metrics", "/manager/api/ips",
        "/manager/api/logs", "/manager/api/admin/list", "/manager/api/admin/create",
        "/manager/api/admin/role", "/manager/api/admin/delete", "/manager/api/admin/audit",
        "/manager/api/admin/audit/clear", "/manager/api/admin/update", "/manager/api/sync/batch",
        "/manager/api/config", "/manager/api/system/restart", "/manager/api/system/info",
        "/manager/api/hashes", "/manager/api/upload", "/manager/api/delete", "/api/data",
        "/manager/api/cdn/files", "/manager/api/cdn/upload", "/manager/api/cdn/link",
        "/manager/api/cdn/delete", "/manager/api/cdn/mkdir", "/manager/api/cdn/stats",
        "/manager/api/cdn/rename"}
SitePath == SiteManager \cup SiteApi \cup {"/", "/home", "/arcwb/sitemap", "/prsm", "/*",
                                   "/manager/api/component/tab-cdn", "/favicon.ico"}
SiteHandler == SiteApi \cup {"home_handler", "manager_login_handler", "manager_dashboard_handler",
                         "api_component_handler", "sitemap_handler", "prsm_handler",
                         "cdn_handler", "static_handler"}
SiteHost == {"alrigroup.com", "www.alrigroup.com", "dev.alrigroup.com",
             "prsm.alrigroup.com", "cdn.alrigroup.com", "example.org"}
SiteFunction == [k \in SitePath \X {"GET", "POST"} |-> 0]
SiteHashes == {SiteFunction}
MCWww == {<<"www.alrigroup.com", "alrigroup.com">>}
MCCovers == {"/*"} \X SitePath
            \cup {<<"/manager/api/component/*", "/manager/api/component/tab-cdn">>}

ASSUME SiteNames == SiteConstants

tableVars == <<route_hash, hash_route, registered>>

siteVars == <<accountVars, telemetryVars, servingVars, webVars, tableVars, focus>>

MCInit ==
    /\ AccountsInit /\ TelemetryInit /\ ServingInit /\ WebInit
    /\ focus \in Focus
    /\ focus # "web" => files = {}
    /\ route_hash = [b \in {0} |-> <<>>]
    /\ hash_route = IF focus = "table" THEN SiteFunction ELSE <<>>
    /\ registered = <<>>
    /\ focus # "accounts" => users[Master] = 0

MCNext ==
    /\ UNCHANGED focus
    /\ \/ /\ \/ focus = "accounts" /\ AccountsNext
                /\ UNCHANGED <<telemetryVars, servingVars, webVars>>
             \/ /\ \/ focus = "log" /\ arc_log
                   \/ focus = "routes" /\ RouteNext
                   \/ focus = "cpu" /\ CpuNext
                /\ UNCHANGED <<accountVars, servingVars, webVars>>
             \/ focus = "serving" /\ ServingNext
                /\ UNCHANGED <<accountVars, telemetryVars, webVars>>
             \/ focus = "web" /\ WebNext
                /\ UNCHANGED <<accountVars, telemetryVars, servingVars>>
          /\ UNCHANGED tableVars
       \/ focus = "table" /\ register_all_endpoints
          /\ UNCHANGED <<accountVars, telemetryVars, servingVars, webVars>>

MCSpec == MCInit /\ [][MCNext]_siteVars

Alike == Permutations(AdminReq) \cup Permutations(User \ {Master}) \cup Permutations(Uploader)
         \cup Permutations(Remover)

\* The three roles that have a name, one above ROOT and one below SUP.
MCRole == -1..3

\* Two paths that fit their field and two that are cut to the same name.
MCCut == ("/a" :> "/a") @@ ("/b" :> "/b") @@ ("/cx" :> "/c") @@ ("/cy" :> "/c")

MCDir == {<<>>, <<"ar-ws">>, WEB_BASE_PATH, WEB_BASE_PATH \o <<"manager">>,
          WEB_BASE_PATH \o <<"manager", "dashboard">>, Tabs}
MCFile == {<<"main.c">>, WEB_BASE_PATH \o <<"home">>, WEB_BASE_PATH \o <<"manager", "home">>,
           Tabs \o <<"home">>}
MCRankOf == "home" :> 1
=============================================================================
