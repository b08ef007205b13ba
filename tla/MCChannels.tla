----------------------------- MODULE MCChannels -----------------------------
EXTENDS Channels

Packets(usb, spp, ble, wifi) ==
  [c \in Chan |-> CASE c = "USB" -> usb [] c = "SPP" -> spp [] c = "BLE" -> ble [] OTHER -> wifi]

\* Enough to fill a list past both limits on one channel while others use the decoder.
MCTraffic == {Packets(3, 1, 0, 0), Packets(1, 3, 0, 0), Packets(0, 0, 2, 1), Packets(1, 1, 1, 0),
              Packets(4, 0, 0, 0), Packets(0, 4, 0, 0), Packets(0, 0, 0, 4)}
JobTraffic == {Packets(2, 2, 0, 0)}
BleTraffic == {Packets(0, 0, 4, 0)}

\* Hosts that never pause inside a job: the clock does not tick while one is under way.
Prompt == elapsed' > elapsed => \A c \in Chan : ~MidJob(c)
PromptSpec == Init /\ [][Next /\ Prompt]_vars

Limits == [c \in Chan |-> 2]
=============================================================================
