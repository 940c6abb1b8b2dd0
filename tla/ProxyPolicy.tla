----------------------------- MODULE ProxyPolicy -----------------------------
(* What proxy a URL is requested through (internal/diagnostics/checks/     *)
(* environment, and http.proxySelectionForURL above it): a function of one *)
(* captured environment.  A variable is unset, holds a URL that parseProxy *)
(* accepts, or holds anything else; bypass is the set of hosts that        *)
(* NO_PROXY, or being a loopback, exempts.                                 *)

CONSTANT Hosts

Values == {"unset", "usable", "malformed"}
Environments ==
  [http : Values, https : Values, all : Values,
   lower : BOOLEAN,   \* http_proxy is set and HTTP_PROXY is not
   cgi : BOOLEAN,     \* REQUEST_METHOD is set
   bypass : SUBSET Hosts]

Schemes == {"http", "https"}

Selections ==
  [validity : {"not_configured", "not_applicable", "valid", "invalid"},
   bypass : {"none", "not_applicable", "no_proxy", "disabled"},
   source : {"none", "HTTP_PROXY", "http_proxy", "HTTPS_PROXY", "ALL_PROXY"}]

SourceOf(env, scheme) ==
  IF scheme = "https" THEN "HTTPS_PROXY"
  ELSE IF env.lower THEN "http_proxy"
  ELSE "HTTP_PROXY"

ValueOf(env, scheme) == IF scheme = "http" THEN env.http ELSE env.https
OtherScheme(scheme) == IF scheme = "http" THEN "https" ELSE "http"

ConfiguredProxy(env, scheme) ==
  IF ValueOf(env, scheme) # "unset"
  THEN [raw |-> ValueOf(env, scheme), source |-> SourceOf(env, scheme)]
  ELSE [raw |-> env.all, source |-> "ALL_PROXY"]

Unsafe(env, u, source) == env.cgi /\ u.scheme = "http" /\ source = "HTTP_PROXY"

\* A bug: what cannot be used is skipped.
SelectProxyLenient(env, u) ==
  LET chosen == ConfiguredProxy(env, u.scheme)
      As(validity, bypass) ==
        [validity |-> validity, bypass |-> bypass, source |-> chosen.source]
  IN IF chosen.raw \in {"unset", "malformed"} \/ Unsafe(env, u, chosen.source) THEN
       [validity |-> "not_configured", bypass |-> "none", source |-> "none"]
     ELSE IF u.host \in env.bypass THEN As("not_applicable", "no_proxy")
     ELSE As("valid", "none")

\* The bypass is decided before the value is looked at.
SelectProxy(env, u) ==
  LET chosen == ConfiguredProxy(env, u.scheme)
      passedOver == OtherScheme(u.scheme)
      As(validity, bypass, source) ==
        [validity |-> validity, bypass |-> bypass, source |-> source]
  IN IF chosen.raw = "unset" /\ ValueOf(env, passedOver) # "unset" THEN
       As("not_applicable", "not_applicable", SourceOf(env, passedOver))
     ELSE IF chosen.raw = "unset" THEN As("not_configured", "none", "none")
     ELSE IF u.host \in env.bypass THEN As("not_applicable", "no_proxy", chosen.source)
     ELSE IF Unsafe(env, u, chosen.source) \/ chosen.raw = "malformed" THEN
       As("invalid", "none", chosen.source)
     ELSE As("valid", "none", chosen.source)

AffectsRoute(sel) == sel.bypass = "none" /\ sel.validity \in {"valid", "invalid"}

\* proxySelectionForURL: the option --no-proxy turns off what would affect the route.
SelectionFor(env, noProxy, u) ==
  LET sel == SelectProxy(env, u) IN
  IF noProxy /\ AffectsRoute(sel)
  THEN [sel EXCEPT !.validity = "not_applicable", !.bypass = "disabled"]
  ELSE sel

\* proxySelectionRoute
RouteOf(sel) ==
  CASE sel.validity = "invalid" -> "blocked"
    [] sel.validity = "valid" /\ sel.bypass = "none" -> "proxy"
    [] OTHER -> "direct"

\* The status of environment.Check for an HTTP target.
EnvironmentVerdict(sel, noProxy) ==
  IF noProxy THEN "passed"
  ELSE IF sel.validity = "invalid" THEN "failed"
  ELSE IF sel.validity = "valid" THEN "warning"
  ELSE "passed"
=============================================================================
