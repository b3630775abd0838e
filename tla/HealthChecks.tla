----------------------------- MODULE HealthChecks -----------------------------
(***************************************************************************)
(* One health check: what the checked side answers, and the outcome the    *)
(* code makes of it.  An HTTP check compares a status and a body with the  *)
(* component's check_type; a VPN check waits for a tunnel or a proxy and   *)
(* probes through it.                                                      *)
(*                                                                         *)
(* A result is <<outcome, late>>: most results carry the time at which the *)
(* check began, those of _error_result the time at which it gave up.  Any  *)
(* check may also raise instead of answering; see CheckRaises of           *)
(* Monitoring.                                                             *)
(***************************************************************************)
CheckOutcomes == {"up", "down", "timeout", "error"}
HttpTypes == {"http_status", "json", "xml"}

\* What httpx gives back: a response with its status (the expected one or not)
\* and its body, or one of its exceptions.  "markup" is valid JSON with a tag
\* in its first 500 characters.
Bodies == {"empty", "json", "markup", "xml", "text"}
Responses == [expected : BOOLEAN, xmlHeader : BOOLEAN, body : Bodies]
Failures == {"timeout", "closed", "unreachable"}

\* _is_xml_body.
IsXml(response) == response.xmlHeader \/ response.body \in {"markup", "xml"}

\* _evaluate_body: an empty body is taken for JSON.
BodyIsRight(type, response) ==
  \/ type = "http_status"
  \/ type = "json" /\ response.body \in {"empty", "json", "markup"} /\ ~IsXml(response)
  \/ type = "xml" /\ IsXml(response)

EvaluateBody(type, response) ==
  IF response.expected /\ BodyIsRight(type, response) THEN "up" ELSE "down"

\* _run_http_health_check, where it returns: a peer that closes without a status
\* line is an error, as any other transport failure; only the message differs.
HttpResults ==
  {<<EvaluateBody(type, response), FALSE>> : type \in HttpTypes, response \in Responses}
    \cup {<<IF failure = "timeout" THEN "timeout" ELSE "error", FALSE>> : failure \in Failures}

\* _probe_endpoint through the tunnel or the proxy, and what counts as ok.
Probes == {"success", "redirect", "refused", "serverError", "noAnswer"}
ProbeOk(probe) == probe \in {"success", "redirect"}

\* A VPN check once its process runs: _wait_for_tun_interface or
\* _wait_for_proxy gives up or not, and anything may raise on the way.
VpnRuns == [tunnel : {"never", "up", "raises"}, probe : Probes]
VpnOutcome(vpn) == CASE vpn.tunnel = "never"  -> "timeout"
                     [] vpn.tunnel = "raises" -> "error"
                     [] vpn.tunnel = "up"     -> IF ProbeOk(vpn.probe) THEN "up" ELSE "down"

\* _run_openvpn_check.
OpenVpnResult(vpn) == <<VpnOutcome(vpn), vpn.tunnel = "raises">>

\* _run_xray_check: a config that cannot be parsed or has no socks or http
\* inbound is an error before any process starts.
XrayConfigs == {"invalid", "noInbound", "usable"}
XrayResult(config, vpn) ==
  IF config = "usable" THEN <<VpnOutcome(vpn), vpn.tunnel = "raises">> ELSE <<"error", TRUE>>

OpenVpnResults == {OpenVpnResult(vpn) : vpn \in VpnRuns}
XrayResults == {XrayResult(config, vpn) : config \in XrayConfigs, vpn \in VpnRuns}

\* measure_download_speed and measure_upload_speed: all bytes of the body, none,
\* or an HTTP error.
Transfers == {"data", "empty", "failed"}

\* is_meaningful_speed_test_success.
Measured(transfer) == transfer = "data"
=============================================================================
