---------------------------- MODULE MCUsbDevice ----------------------------
(* UsbDevice on two ports of one hub, or of two root hubs; an accessory of *)
(* another program is behind another root port.                            *)
EXTENDS UsbDevice

MCPaths         == {<<1, 1>>, <<1, 2>>}
MCRootPaths     == {<<1, 1>>, <<3, 2>>}
MCStrangerPaths == {<<2, 1>>}
MCFresh         == {NoPath}
MCUninitialised == {NoPath, <<1, 1>>}
=============================================================================
