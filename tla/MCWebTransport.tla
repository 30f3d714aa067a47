---------------------------- MODULE MCWebTransport ----------------------------
(* Instances of WebTransport: a client and its host.                       *)
EXTENDS WebTransport

CONSTANTS client, host,
          ClientReliable, ClientUnreliable, ClientTime,
          HostReliable, HostUnreliable, HostTime

MCPeer == {client, host}

ByPeer(c, h) == [p \in MCPeer |-> IF p = client THEN c ELSE h]

MCMaxReliable   == ByPeer(ClientReliable, HostReliable)
MCMaxUnreliable == ByPeer(ClientUnreliable, HostUnreliable)
MCMaxTime       == ByPeer(ClientTime, HostTime)
=============================================================================
