---------------------------- MODULE MCRpcMessage ----------------------------
(***************************************************************************)
(* RpcMessage for all the structs and interfaces of TunnelRpcSchema.       *)
(***************************************************************************)
EXTENDS RpcMessage, TunnelRpcSchema

SchemaReaders ==
  [authentication |-> AuthenticationReader,
   tunnel_registration |-> TunnelRegistrationReader,
   registration_options |-> RegistrationOptionsReader,
   server_info |-> ServerInfoReader,
   authenticate_response |-> AuthenticateResponseReader,
   register_tunnel_params |-> RegisterTunnelParamsReader,
   register_tunnel_results |-> RegisterTunnelResultsReader,
   get_server_info_results |-> GetServerInfoResultsReader,
   unregister_tunnel_params |-> UnregisterTunnelParamsReader,
   authenticate_params |-> AuthenticateParamsReader,
   authenticate_results |-> AuthenticateResultsReader,
   reconnect_tunnel_params |-> ReconnectTunnelParamsReader,
   reconnect_tunnel_results |-> ReconnectTunnelResultsReader,
   tag |-> TagReader,
   client_info |-> ClientInfoReader,
   connection_options |-> ConnectionOptionsReader,
   connection_response |-> ConnectionResponseReader,
   connection_error |-> ConnectionErrorReader,
   connection_details |-> ConnectionDetailsReader,
   tunnel_auth |-> TunnelAuthReader,
   register_connection_params |-> RegisterConnectionParamsReader,
   register_connection_results |-> RegisterConnectionResultsReader,
   update_local_configuration_params |-> UpdateLocalConfigurationParamsReader,
   register_udp_session_response |-> RegisterUdpSessionResponseReader,
   register_udp_session_params |-> RegisterUdpSessionParamsReader,
   register_udp_session_results |-> RegisterUdpSessionResultsReader,
   unregister_udp_session_params |-> UnregisterUdpSessionParamsReader,
   update_configuration_response |-> UpdateConfigurationResponseReader,
   update_configuration_params |-> UpdateConfigurationParamsReader,
   update_configuration_results |-> UpdateConfigurationResultsReader,
   get_server_info_params |-> NoFields,
   obsolete_declarative_tunnel_connect_params |-> NoFields,
   unregister_connection_params |-> NoFields]

SchemaBuilders ==
  [authentication |-> AuthenticationBuilder,
   tunnel_registration |-> TunnelRegistrationBuilder,
   registration_options |-> RegistrationOptionsBuilder,
   server_info |-> ServerInfoBuilder,
   authenticate_response |-> AuthenticateResponseBuilder,
   register_tunnel_params |-> RegisterTunnelParamsBuilder,
   register_tunnel_results |-> RegisterTunnelResultsBuilder,
   get_server_info_results |-> GetServerInfoResultsBuilder,
   unregister_tunnel_params |-> UnregisterTunnelParamsBuilder,
   authenticate_params |-> AuthenticateParamsBuilder,
   authenticate_results |-> AuthenticateResultsBuilder,
   reconnect_tunnel_params |-> ReconnectTunnelParamsBuilder,
   reconnect_tunnel_results |-> ReconnectTunnelResultsBuilder,
   tag |-> TagBuilder,
   client_info |-> ClientInfoBuilder,
   connection_options |-> ConnectionOptionsBuilder,
   connection_response |-> ConnectionResponseBuilder,
   connection_error |-> ConnectionErrorBuilder,
   connection_details |-> ConnectionDetailsBuilder,
   tunnel_auth |-> TunnelAuthBuilder,
   register_connection_params |-> RegisterConnectionParamsBuilder,
   register_connection_results |-> RegisterConnectionResultsBuilder,
   update_local_configuration_params |-> UpdateLocalConfigurationParamsBuilder,
   register_udp_session_response |-> RegisterUdpSessionResponseBuilder,
   register_udp_session_params |-> RegisterUdpSessionParamsBuilder,
   register_udp_session_results |-> RegisterUdpSessionResultsBuilder,
   unregister_udp_session_params |-> UnregisterUdpSessionParamsBuilder,
   update_configuration_response |-> UpdateConfigurationResponseBuilder,
   update_configuration_params |-> UpdateConfigurationParamsBuilder,
   update_configuration_results |-> UpdateConfigurationResultsBuilder,
   get_server_info_params |-> NoFieldsBuilder,
   obsolete_declarative_tunnel_connect_params |-> NoFieldsBuilder,
   unregister_connection_params |-> NoFieldsBuilder]

SchemaInterfaces ==
  [tunnel_server |-> TunnelServer,
   registration_server |-> RegistrationServer,
   session_manager |-> SessionManager,
   configuration_manager |-> ConfigurationManager,
   cloudflared_server |-> CloudflaredServer]

(* Zero, one, and all ones.                                                *)
SomeNumbers == {{}, {0}, 0 .. 63}
SomeContents == {<<>>, <<1>>}
=============================================================================
