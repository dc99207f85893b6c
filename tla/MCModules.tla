-------------------------------- MODULE MCModules --------------------------------
(* Lists of modules that a user stores, for TLC.                           *)
EXTENDS ModuleSettings

On(key, name, shared, sig) == [key |-> key, name |-> name, shared |-> shared, signature |-> sig]
Mod(id, claims, touches, asks) ==
  [id |-> id, packaged |-> TRUE, listed |-> TRUE, entities |-> TRUE,
   claims |-> claims, touches |-> touches, asks |-> asks]

\* A light, a voltage sensor, two temperature sensors on one bus, of which the second may
\* leave the pins of the bus to the driver, and the distance sensor, whose two pins have one
\* logical name.
Light    == Mod("light", <<On("gpio:2", "gpio.output", FALSE, 0)>>, {"gpio:2"}, {})
Voltage  == Mod("voltage", <<On("adc:1", "ac_voltage.adc", FALSE, 0),
                             On("gpio:1", "ac_voltage.adc.gpio", FALSE, 0)>>, {"adc:1", "gpio:1"}, {})
Warm     == Mod("warm", <<On("spi:1", "max31865.spi", TRUE, 1), On("gpio:2", "spi.1.sck", TRUE, 2),
                          On("gpio:5", "max31865.cs", FALSE, 0)>>,
                {"spi:1", "gpio:2", "gpio:5"}, {"max31865.spi", "max31865.cs"})
Cold     == Mod("cold", <<On("spi:1", "max31865.spi", TRUE, 1), On("gpio:2", "spi.1.sck", TRUE, 2),
                          On("gpio:6", "max31865.cs", FALSE, 0)>>,
                {"spi:1", "gpio:2", "gpio:6"}, {"max31865.spi", "max31865.cs"})
Bare     == Mod("bare", <<On("spi:1", "max31865.spi", TRUE, 0), On("gpio:6", "max31865.cs", FALSE, 0)>>,
                {"spi:1", "gpio:2", "gpio:6"}, {"max31865.spi", "max31865.cs"})
Distance == Mod("distance", <<On("gpio:7", "gpio.input", FALSE, 0),
                              On("gpio:8", "gpio.input", FALSE, 0)>>, {"gpio:7", "gpio:8"}, {})
Unknown  == [Light EXCEPT !.id = "unknown", !.packaged = FALSE]
Odd      == [Light EXCEPT !.id = "odd", !.listed = FALSE]
Plain    == [Light EXCEPT !.id = "plain", !.entities = FALSE]

MCPlan == {<< >>, <<Voltage, Odd>>, <<Warm, Cold>>, <<Light, Bare>>, <<Light, Warm>>,
           <<Distance>>, <<Unknown>>, <<Plain>>}
=============================================================================
