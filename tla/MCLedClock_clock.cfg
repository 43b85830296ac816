SPECIFICATION Spec
CONSTANTS
  TEMPOS <- MCFastTempo
  MODES <- MCModes
  STATUSES <- MCStatuses
  PRESSURES <- MCPressures
  TIMINGS = 4
  MIDI_BYTES <- MCMidi
INVARIANTS TypeOK MidiFadeInRange
PROPERTIES BeatNotLost FadeOnlyDarkens LedSettles
