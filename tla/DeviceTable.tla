---------------------------- MODULE DeviceTable ----------------------------
(***************************************************************************)
(* The hardware behind /dev: for each entry of devfs_list that drives a    *)
(* peripheral, the peripheral, the pins and the DMA streams its default    *)
(* configuration names.  A pin is <<port, pin>>, a stream is               *)
(* <<dma_number, stream_number>>; {0xff, 0xff} is no pin.  An entry uses   *)
(* its streams only if its driver is the DMA one (mcu_uart_dma, not        *)
(* mcu_uart), whatever its configuration carries.  The port is the one in  *)
(* the configuration: DEVFS_CHAR_DEVICE passes on no other.  For spi2, an  *)
(* entry of DEVFS_DEVICE, the handle says 0 and the configuration 2.       *)
(***************************************************************************)
EXTENDS Integers

CONFIG_PIN ==
  [USART2_TX |-> <<3, 5>>, USART2_RX |-> <<3, 6>>,
   USART6_TX |-> <<6, 9>>, USART6_RX |-> <<6, 14>>,
   I2C1_SDA |-> <<1, 9>>, I2C1_SCL |-> <<1, 8>>,
   I2C2_SDA |-> <<5, 0>>, I2C2_SCL |-> <<5, 1>>,
   SPI1_MISO |-> <<0, 6>>, SPI1_MOSI |-> <<0, 7>>, SPI1_SCK |-> <<0, 5>>,
   SPI3_MISO |-> <<1, 4>>, SPI3_MOSI |-> <<1, 5>>, SPI3_SCK |-> <<1, 3>>]

CONFIG_DMA_STREAM ==
  [USART6_RX |-> <<2, 1>>, USART6_TX |-> <<2, 6>>,
   SPI1_RX |-> <<2, 0>>, SPI1_TX |-> <<2, 6>>,
   SPI3_RX |-> <<1, 0>>, SPI3_TX |-> <<1, 5>>]

Pins(signals) == {CONFIG_PIN[s] : s \in signals}
Streams(signals) == {CONFIG_DMA_STREAM[s] : s \in signals}

\* driver: "mcu" for mcu_<kind>, "mcu_dma" for mcu_<kind>_dma.
Entry(kind, driver, port, pins, streams) ==
  [kind |-> kind, driver |-> driver, port |-> port, pins |-> pins, streams |-> streams]

\* What an entry takes when its defaults are applied.
EntryResources(entry) ==
  {<<entry.kind, entry.port, 0>>}
  \cup {<<"pin", p[1], p[2]>> : p \in entry.pins}
  \cup {<<"dma", s[1], s[2]>> : s \in IF entry.driver = "mcu_dma" THEN entry.streams ELSE {}}

\* Its trigger, the output of tim2, is read and not taken: nothing but
\* /dev/tmr2 itself, when it is used, sets that timer up.
adc0  == Entry("adc", "mcu_dma", 0, {<<0, 3>>, <<2, 0>>, <<2, 3>>}, {<<2, 0>>})
i2c0  == Entry("i2c", "mcu", 0, Pins({"I2C1_SDA", "I2C1_SCL"}), {})
i2c1  == Entry("i2c", "mcu", 1, Pins({"I2C2_SDA", "I2C2_SCL"}), {})
\* Mutant: spi0 goes through the driver its configuration was written for.
spi0_by_dma ==
  Entry("spi", "mcu_dma", 0, Pins({"SPI1_MISO", "SPI1_MOSI", "SPI1_SCK"}),
        Streams({"SPI1_RX", "SPI1_TX"}))

spi0  == Entry("spi", "mcu", 0, Pins({"SPI1_MISO", "SPI1_MOSI", "SPI1_SCK"}),
               Streams({"SPI1_RX", "SPI1_TX"}))
spi2  == Entry("spi", "mcu", 2, Pins({"SPI3_MISO", "SPI3_MOSI", "SPI3_SCK"}),
               Streams({"SPI3_RX", "SPI3_TX"}))
tmr(port) == Entry("tmr", "mcu", port, {}, {})
uart1 == Entry("uart", "mcu", 1, Pins({"USART2_TX", "USART2_RX"}), {})
uart5 == Entry("uart", "mcu_dma", 5, Pins({"USART6_TX", "USART6_RX"}),
               Streams({"USART6_RX", "USART6_TX"}))
eth0  == Entry("eth", "mcu", 0,
               {<<0, 1>>, <<6, 13>>, <<1, 13>>, <<6, 11>>, <<2, 4>>, <<2, 5>>,
                <<0, 7>>, <<0, 2>>, <<2, 1>>}, {})
\* The link's USB port, as link_transport_open sets it up.
usb   == Entry("usb", "mcu", 0, {<<0, 11>>, <<0, 12>>}, {})
\* What debug_initialize takes before any device: the LED, and in debug
\* builds USART3.
debug == Entry("uart", "HAL", 2, {<<1, 7>>, <<3, 8>>, <<3, 9>>}, {})

\* devfs_list of the F746ZG; a board without Ethernet lacks eth0 and uart5.
devfs_list_F746ZG ==
  [adc0 |-> adc0, i2c0 |-> i2c0, i2c1 |-> i2c1, spi0 |-> spi0, spi2 |-> spi2,
   tmr0 |-> tmr(0), tmr2 |-> tmr(2), tmr3 |-> tmr(3), tmr4 |-> tmr(4),
   uart1 |-> uart1, usb |-> usb, debug |-> debug, eth0 |-> eth0, uart5 |-> uart5]

\* Mutant: the table starts with the system's device.
devfs_order_sys_first ==
  <<"sys", "trace", "stdio-out", "stdio-in", "link-phy-usb", "auth", "adc0", "core", "eth0">>

\* The order of devfs_list, of whose entries only the first is found by it.
devfs_order ==
  <<"trace", "stdio-out", "stdio-in", "link-phy-usb", "sys", "auth", "adc0", "core", "eth0",
    "i2c0", "i2c1", "pio0", "pio1", "pio2", "pio3", "pio4", "pio5", "pio6", "pio7",
    "spi0", "spi2", "tmr0", "tmr2", "tmr3", "tmr4", "uart1", "uart5">>

\* Entries without hardware whose driver is fifo or ffifo.
fifos == {"trace", "stdio-out", "stdio-in"}

Mount(path, driver) == [path |-> path, driver |-> driver]

sysfs_list ==
  <<Mount(<<"app">>, "appfs"), Mount(<<"dev">>, "devfs"), Mount(<<>>, "sysfs")>>

\* Mutant: programs print where they read.
fs_one_stdio ==
  [stdin_dev |-> <<"dev", "stdio-out">>, stdout_dev |-> <<"dev", "stdio-out">>,
   stderr_dev |-> <<"dev", "stdio-out">>, trace_dev |-> <<"dev", "trace">>]

\* sos_config.fs.
sos_config_fs ==
  [stdin_dev |-> <<"dev", "stdio-in">>, stdout_dev |-> <<"dev", "stdio-out">>,
   stderr_dev |-> <<"dev", "stdio-out">>, trace_dev |-> <<"dev", "trace">>]

=============================================================================
