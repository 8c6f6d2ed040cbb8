CONSTANTS
  Layers <- MCLayers
  Urls <- MCUrls
  Default <- MCDefault
SPECIFICATION Spec
INVARIANTS
  TypeOK
  PluginFindsListener
