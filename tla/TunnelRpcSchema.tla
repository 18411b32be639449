-------------------------- MODULE TunnelRpcSchema --------------------------
(***************************************************************************)
(* The structs and interfaces of tunnelrpc_capnp.rs: where the getters of  *)
(* each struct's Reader find its fields, how large a struct its Builder    *)
(* makes and where its setters put them, the numbers under which the       *)
(* clients of an interface call its methods and those under which its      *)
(* servers dispatch them.                                                  *)
(***************************************************************************)
EXTENDS StructLayout

AuthenticationReader ==
  [key |-> Text(0), email |-> Text(1), origin_c_a_key |-> Text(2)]
AuthenticationBuilder == Builder(0, 3,
  [key |-> Text(0), email |-> Text(1), origin_c_a_key |-> Text(2)])

TunnelRegistrationReader ==
  [err |-> Text(0), url |-> Text(1), log_lines |-> List(2),
   permanent_failure |-> Bool(0), tunnel_i_d |-> Text(3),
   retry_after_seconds |-> U16(1), event_digest |-> Bytes(4),
   conn_digest |-> Bytes(5)]
TunnelRegistrationBuilder == Builder(1, 6,
  [err |-> Text(0), url |-> Text(1), log_lines |-> List(2),
   permanent_failure |-> Bool(0), tunnel_i_d |-> Text(3),
   retry_after_seconds |-> U16(1), event_digest |-> Bytes(4),
   conn_digest |-> Bytes(5)])

RegistrationOptionsReader ==
  [client_id |-> Text(0), version |-> Text(1), os |-> Text(2),
   existing_tunnel_policy |-> U16(0), pool_name |-> Text(3), tags |-> List(4),
   connection_id |-> U8(2), origin_local_ip |-> Text(5),
   is_autoupdated |-> Bool(24), run_from_terminal |-> Bool(25),
   compression_quality |-> U64(1), uuid |-> Text(6),
   num_previous_attempts |-> U8(4), features |-> List(7)]
(* Mutant: two setters write to one byte.                                  *)
RegistrationOptionsBuilderMutant == Builder(2, 8,
  [client_id |-> Text(0), version |-> Text(1), os |-> Text(2),
   existing_tunnel_policy |-> U16(0), pool_name |-> Text(3), tags |-> List(4),
   connection_id |-> U8(2), origin_local_ip |-> Text(5),
   is_autoupdated |-> Bool(24), run_from_terminal |-> Bool(25),
   compression_quality |-> U64(1), uuid |-> Text(6),
   num_previous_attempts |-> U8(3), features |-> List(7)])

RegistrationOptionsBuilder == Builder(2, 8,
  [client_id |-> Text(0), version |-> Text(1), os |-> Text(2),
   existing_tunnel_policy |-> U16(0), pool_name |-> Text(3), tags |-> List(4),
   connection_id |-> U8(2), origin_local_ip |-> Text(5),
   is_autoupdated |-> Bool(24), run_from_terminal |-> Bool(25),
   compression_quality |-> U64(1), uuid |-> Text(6),
   num_previous_attempts |-> U8(4), features |-> List(7)])

ServerInfoReader == [location_name |-> Text(0)]
ServerInfoBuilder == Builder(0, 1, [location_name |-> Text(0)])

AuthenticateResponseReader ==
  [permanent_err |-> Text(0), retryable_err |-> Text(1), jwt |-> Bytes(2),
   hours_until_refresh |-> U8(0)]
AuthenticateResponseBuilder == Builder(1, 3,
  [permanent_err |-> Text(0), retryable_err |-> Text(1), jwt |-> Bytes(2),
   hours_until_refresh |-> U8(0)])

RegisterTunnelParamsReader ==
  [origin_cert |-> Bytes(0), hostname |-> Text(1), options |-> Struct(2)]
RegisterTunnelParamsBuilder == Builder(0, 3,
  [origin_cert |-> Bytes(0), hostname |-> Text(1), options |-> Struct(2)])

RegisterTunnelResultsReader == [result |-> Struct(0)]
RegisterTunnelResultsBuilder == Builder(0, 1, [result |-> Struct(0)])

GetServerInfoResultsReader == [result |-> Struct(0)]
GetServerInfoResultsBuilder == Builder(0, 1, [result |-> Struct(0)])

UnregisterTunnelParamsReader == [grace_period_nano_sec |-> I64(0)]
UnregisterTunnelParamsBuilder == Builder(1, 0,
  [grace_period_nano_sec |-> I64(0)])

AuthenticateParamsReader ==
  [origin_cert |-> Bytes(0), hostname |-> Text(1), options |-> Struct(2)]
AuthenticateParamsBuilder == Builder(0, 3,
  [origin_cert |-> Bytes(0), hostname |-> Text(1), options |-> Struct(2)])

AuthenticateResultsReader == [result |-> Struct(0)]
AuthenticateResultsBuilder == Builder(0, 1, [result |-> Struct(0)])

ReconnectTunnelParamsReader ==
  [jwt |-> Bytes(0), event_digest |-> Bytes(1), conn_digest |-> Bytes(2),
   hostname |-> Text(3), options |-> Struct(4)]
ReconnectTunnelParamsBuilder == Builder(0, 5,
  [jwt |-> Bytes(0), event_digest |-> Bytes(1), conn_digest |-> Bytes(2),
   hostname |-> Text(3), options |-> Struct(4)])

ReconnectTunnelResultsReader == [result |-> Struct(0)]
ReconnectTunnelResultsBuilder == Builder(0, 1, [result |-> Struct(0)])

TagReader == [name |-> Text(0), value |-> Text(1)]
TagBuilder == Builder(0, 2,
  [name |-> Text(0), value |-> Text(1)])

ClientInfoReader ==
  [client_id |-> Bytes(0), features |-> List(1), version |-> Text(2),
   arch |-> Text(3)]
ClientInfoBuilder == Builder(0, 4,
  [client_id |-> Bytes(0), features |-> List(1), version |-> Text(2),
   arch |-> Text(3)])

ConnectionOptionsReader ==
  [client |-> Struct(0), origin_local_ip |-> Bytes(1),
   replace_existing |-> Bool(0), compression_quality |-> U8(1),
   num_previous_attempts |-> U8(2)]
ConnectionOptionsBuilder == Builder(1, 2,
  [client |-> Struct(0), origin_local_ip |-> Bytes(1),
   replace_existing |-> Bool(0), compression_quality |-> U8(1),
   num_previous_attempts |-> U8(2)])

(* The two members of the union result share a pointer slot.               *)
ConnectionResponseReader ==
  [error |-> Member(0, Struct(0)), connection_details |-> Member(1, Struct(0))]
ConnectionResponseBuilder == Builder(1, 1,
  [error |-> Member(0, Struct(0)), connection_details |-> Member(1, Struct(0))])

ConnectionErrorReader ==
  [cause |-> Text(0), retry_after |-> I64(0), should_retry |-> Bool(64)]
ConnectionErrorBuilder == Builder(2, 1,
  [cause |-> Text(0), retry_after |-> I64(0), should_retry |-> Bool(64)])

ConnectionDetailsReader ==
  [uuid |-> Bytes(0), location_name |-> Text(1),
   tunnel_is_remotely_managed |-> Bool(0)]
ConnectionDetailsBuilder == Builder(1, 2,
  [uuid |-> Bytes(0), location_name |-> Text(1),
   tunnel_is_remotely_managed |-> Bool(0)])

TunnelAuthReader == [account_tag |-> Text(0), tunnel_secret |-> Bytes(1)]
TunnelAuthBuilder == Builder(0, 2,
  [account_tag |-> Text(0), tunnel_secret |-> Bytes(1)])

RegisterConnectionParamsReader ==
  [auth |-> Struct(0), tunnel_id |-> Bytes(1), conn_index |-> U8(0),
   options |-> Struct(2)]
RegisterConnectionParamsBuilder == Builder(1, 3,
  [auth |-> Struct(0), tunnel_id |-> Bytes(1), conn_index |-> U8(0),
   options |-> Struct(2)])

RegisterConnectionResultsReader == [result |-> Struct(0)]
RegisterConnectionResultsBuilder == Builder(0, 1, [result |-> Struct(0)])

UpdateLocalConfigurationParamsReader == [config |-> Bytes(0)]
UpdateLocalConfigurationParamsBuilder == Builder(0, 1, [config |-> Bytes(0)])

RegisterUdpSessionResponseReader == [err |-> Text(0), spans |-> Bytes(1)]
RegisterUdpSessionResponseBuilder == Builder(0, 2,
  [err |-> Text(0), spans |-> Bytes(1)])

RegisterUdpSessionParamsReader ==
  [session_id |-> Bytes(0), dst_ip |-> Bytes(1), dst_port |-> U16(0),
   close_after_idle_hint |-> I64(1), trace_context |-> Text(2)]
RegisterUdpSessionParamsBuilder == Builder(2, 3,
  [session_id |-> Bytes(0), dst_ip |-> Bytes(1), dst_port |-> U16(0),
   close_after_idle_hint |-> I64(1), trace_context |-> Text(2)])

RegisterUdpSessionResultsReader == [result |-> Struct(0)]
RegisterUdpSessionResultsBuilder == Builder(0, 1, [result |-> Struct(0)])

UnregisterUdpSessionParamsReader == [session_id |-> Bytes(0), message |-> Text(1)]
UnregisterUdpSessionParamsBuilder == Builder(0, 2,
  [session_id |-> Bytes(0), message |-> Text(1)])

UpdateConfigurationResponseReader == [latest_applied_version |-> I32(0), err |-> Text(0)]
UpdateConfigurationResponseBuilder == Builder(1, 1,
  [latest_applied_version |-> I32(0), err |-> Text(0)])

UpdateConfigurationParamsReader == [version |-> I32(0), config |-> Bytes(0)]
UpdateConfigurationParamsBuilder == Builder(1, 1,
  [version |-> I32(0), config |-> Bytes(0)])

UpdateConfigurationResultsReader == [result |-> Struct(0)]
UpdateConfigurationResultsBuilder == Builder(0, 1, [result |-> Struct(0)])

(* The parameters of methods that take none.                               *)
NoFields == [f \in {} |-> Text(0)]
NoFieldsBuilder == Builder(0, 0, NoFields)

-----------------------------------------------------------------------------
(* Interfaces: TYPE_ID, what the methods of Client put in a call, what     *)
(* dispatch_call_internal makes of a method number, the interfaces whose   *)
(* calls dispatch_call takes, and those the trait Server extends.          *)

Request(number, params) == [number |-> number, params |-> params]
Method(name, params) == [name |-> name, params |-> params]

(* Mutant: calls of the interface that it extends are not taken.           *)
CloudflaredServerMutant ==
  [id |-> "f548cef9dea2a4a1",
   requests |-> [m \in {} |-> Request(0, "")],
   methods |-> <<>>,
   takes |-> {"f548cef9dea2a4a1", "839445a59fb01686"},
   extends |-> {"session_manager", "configuration_manager"}]

TunnelServer ==
  [id |-> "ea58385c65416035",
   requests |->
     [register_tunnel |-> Request(0, "register_tunnel_params"),
      get_server_info |-> Request(1, "get_server_info_params"),
      unregister_tunnel |-> Request(2, "unregister_tunnel_params"),
      obsolete_declarative_tunnel_connect |->
        Request(3, "obsolete_declarative_tunnel_connect_params"),
      authenticate |-> Request(4, "authenticate_params"),
      reconnect_tunnel |-> Request(5, "reconnect_tunnel_params")],
   methods |->
     <<Method("register_tunnel", "register_tunnel_params"),
       Method("get_server_info", "get_server_info_params"),
       Method("unregister_tunnel", "unregister_tunnel_params"),
       Method("obsolete_declarative_tunnel_connect",
              "obsolete_declarative_tunnel_connect_params"),
       Method("authenticate", "authenticate_params"),
       Method("reconnect_tunnel", "reconnect_tunnel_params")>>,
   takes |-> {"ea58385c65416035", "f71695ec7fe85497"},
   extends |-> {"registration_server"}]

RegistrationServer ==
  [id |-> "f71695ec7fe85497",
   requests |->
     [register_connection |-> Request(0, "register_connection_params"),
      unregister_connection |-> Request(1, "unregister_connection_params"),
      update_local_configuration |->
        Request(2, "update_local_configuration_params")],
   methods |->
     <<Method("register_connection", "register_connection_params"),
       Method("unregister_connection", "unregister_connection_params"),
       Method("update_local_configuration",
              "update_local_configuration_params")>>,
   takes |-> {"f71695ec7fe85497"},
   extends |-> {}]

SessionManager ==
  [id |-> "839445a59fb01686",
   requests |->
     [register_udp_session |-> Request(0, "register_udp_session_params"),
      unregister_udp_session |-> Request(1, "unregister_udp_session_params")],
   methods |->
     <<Method("register_udp_session", "register_udp_session_params"),
       Method("unregister_udp_session", "unregister_udp_session_params")>>,
   takes |-> {"839445a59fb01686"},
   extends |-> {}]

ConfigurationManager ==
  [id |-> "b48edfbdaa25db04",
   requests |->
     [update_configuration |-> Request(0, "update_configuration_params")],
   methods |-> <<Method("update_configuration", "update_configuration_params")>>,
   takes |-> {"b48edfbdaa25db04"},
   extends |-> {}]

CloudflaredServer ==
  [id |-> "f548cef9dea2a4a1",
   requests |-> [m \in {} |-> Request(0, "")],
   methods |-> <<>>,
   takes |-> {"f548cef9dea2a4a1", "839445a59fb01686", "b48edfbdaa25db04"},
   extends |-> {"session_manager", "configuration_manager"}]
=============================================================================
