---------------------------- MODULE MCMqttClient ----------------------------
(* Instances of the MQTT client for TLC. *)
EXTENDS MqttClient
=============================================================================
