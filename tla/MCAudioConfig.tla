---- MODULE MCAudioConfig ----
(***************************************************************************)
(* Instances of AudioConfig.  Routed: every label paired with its reverse, *)
(* labels of their own for each stream, bits that name one device each.    *)
(* Shipped: the devices and streams of audio/audio.mocha.xml in its order, *)
(* each path reduced to the switch that turns the sound on or off.         *)
(***************************************************************************)
EXTENDS AudioConfig, TLC

Ctl(name, val) == [name |-> name, val |-> val]

\* on/off and a switch per stream, of a device; the controls are its own.
Paired(dev, labels) ==
    [id \in {"on", "off"} \cup {l \o "_on" : l \in labels} \cup {l \o "_off" : l \in labels} |->
        CASE id = "on"  -> <<Ctl(dev \o " power", 1)>>
          [] id = "off" -> <<Ctl(dev \o " power", 0)>>
          [] OTHER -> <<Ctl(CHOOSE n \in {dev \o " " \o l : l \in labels} :
                                \E l \in labels : n = dev \o " " \o l /\ id \in {l \o "_on", l \o "_off"},
                            IF \E l \in labels : id = l \o "_on" THEN 1 ELSE 0)>>]

NoUsecase == << >>

RoutedDevices ==
    <<[type |-> {"speaker"},      paths |-> Paired("speaker", {"pcm", "fm"})],
      [type |-> {},               paths |-> Paired("global", {"pcm", "rec"})],
      [type |-> {"headset"},      paths |-> Paired("headset", {"pcm"})],
      [type |-> {"IN", "mic"},    paths |-> Paired("mic", {"rec"})],
      [type |-> {"IN", "hs mic"}, paths |-> Paired("hs mic", {"rec"})]>>

RoutedStreams ==
    <<[type |-> "out_pcm", name |-> NoName, enable_path |-> "pcm_on", disable_path |-> "pcm_off",
       max_ref_count |-> 2, usecases |-> NoUsecase,
       volume |-> <<[name |-> "volume", min |-> 3, max |-> 8]>>],
      [type |-> "out_hw", name |-> "fm", enable_path |-> "fm_on", disable_path |-> "fm_off",
       max_ref_count |-> 1, volume |-> << >>,
       usecases |-> [mute |-> <<Ctl("fm mute", 1), Ctl("absent", 1), Ctl("fm gain", 1)>>,
                     unmute |-> <<Ctl("fm mute", 0)>>]],
      [type |-> "in_pcm", name |-> NoName, enable_path |-> "rec_on", disable_path |-> "rec_off",
       max_ref_count |-> 2, volume |-> << >>, usecases |-> NoUsecase]>>

RoutedRoutes == {{}, {"speaker"}, {"headset"}, {"speaker", "headset"},
                 {"IN", "mic"}, {"IN", "hs mic"}}

RoutedMixer ==
    [c \in {"speaker power", "speaker pcm", "speaker fm", "global power", "global pcm",
            "global rec", "headset power", "headset pcm", "mic power", "mic rec",
            "hs mic power", "hs mic rec", "fm mute", "fm gain", "volume"} |->
        IF c = "volume" THEN 3 ELSE 0]

ShippedDevices ==
    <<[type |-> {"0x2"}, paths |-> [on     |-> <<Ctl("RxDP SRC", "Normal")>>,
                                    on_pcm |-> <<Ctl("Int Spk", 1)>>,
                                    off_pcm |-> <<Ctl("Int Spk", 0)>>]],
      [type |-> {"0x8"}, paths |-> [on     |-> <<Ctl("RxDP SRC", "Divided by 3")>>,
                                    on_pcm |-> <<Ctl("Headphone Jack", 1)>>,
                                    off_pcm |-> <<Ctl("Headphone Jack", 0)>>]],
      [type |-> {"0x4"}, paths |-> [on     |-> <<Ctl("IF1 ADC", "IF1_ADC1")>>,
                                    on_pcm |-> <<Ctl("Headphone Jack", 1)>>,
                                    off_pcm |-> <<Ctl("Headphone Jack", 0)>>]],
      [type |-> {"IN", "0x10"}, paths |-> [on_pcm_rec  |-> <<Ctl("Mic Jack", 1)>>,
                                           off_pcm_rec |-> <<Ctl("Mic Jack", 0)>>]],
      [type |-> {"IN", "0x4"},  paths |-> [on |-> <<Ctl("IF1 ADC", "IF1_ADC1")>>,
                                           on_pcm_rec  |-> <<Ctl("Int Mic", 1)>>,
                                           off_pcm_rec |-> <<Ctl("Int Mic", 0)>>]]>>

ShippedStream(type, enable, disable) ==
    [type |-> type, name |-> NoName, enable_path |-> enable, disable_path |-> disable,
     max_ref_count |-> 2147483647, volume |-> << >>, usecases |-> NoUsecase]

ShippedStreams == <<ShippedStream("out_pcm", "on_pcm", "off_pcm"),
                    ShippedStream("in_pcm", "on_pcm_rec", "off_pcm_rec")>>

ShippedRoutes == {{}, {"0x2"}, {"0x8"}, {"0x4"}, {"IN", "0x4"}, {"IN", "0x10"}}

ShippedMixer ==
    [c \in {"RxDP SRC", "IF1 ADC", "Int Spk", "Headphone Jack", "Mic Jack", "Int Mic"} |->
        IF c \in {"RxDP SRC", "IF1 ADC"} THEN "default" ELSE 0]

Clients == Permutations(Client)
====
